---------------------------- MODULE Spec2Model ----------------------------
(***************************************************************************)
(* A model of libdfs' cross-process memory interface and typed reader      *)
(* core: the ProcessCache and ProcessVectorizer decorators                 *)
(* (src/dfs/Process.cpp), the ReadSession stop/cont guard                  *)
(* (src/dfs/Reader.cpp), the ReaderFactory reader cache and the session's  *)
(* shared-object cache (Reader.h).                                         *)
(***************************************************************************)
EXTENDS Integers, Sequences, FiniteSets, TLC

(***************************************************************************)
(* Bounds of the model and program constants.                              *)
(***************************************************************************)
\* Process.cpp:45 (4096 in the program; the cache only uses it through
\* alignment arithmetic, so the model scales it down).
PageSize == 2
\* Number of consecutive pages of target memory.
NumPages == 3
\* Number of ProcessCache::read calls that may be suspended at once.
MaxReq == 2
\* Number of times the running target rewrites its memory.
MaxGen == 1
\* Number of read tasks handed to one ReadSession::sync.
NTasks == 2
\* Number of reads one task issues, one after the other.
MaxReads == 2
\* Size of the largest buffer a task reads.
MaxSize == 3
\* Largest ceiling a ProcessVectorizer is constructed with.
MaxCeiling == 4

\* Largest address read through a shared pointer.
MaxSAddr == 2
\* Number of caches the caller can register with a session.
NExt == 1
\* Number of shared tasks created.
MaxObj == 3
\* Number of shared-pointer reads of one session.
MaxSReads == 3

\* Width of std::size_t in bits.
SizeBits == 3
\* Largest number of alternatives of a union.
MaxAlt == 2
\* Number of fields of the structure read.
NFields == 3
\* Number of types of a polymorphic family, the base included.
NTypes == 3
\* Width of a pointer of the target in bits.
WordBits == 2
\* Largest value of a pointer of a std::vector.
MaxPtr == 6

\* Nodes the target holds, and buffers read_df_linkedlist can allocate.
MaxNodes == 3
MaxFetch == 4

\* Largest buffer of a read of a native process, and most buffers of a readv.
MaxBuf == 3
MaxTasks == 3
\* Most ranges process_vm_readv takes in one call.
IOV_MAX == 2

\* Number of types of the structures laid out, and most members of a
\* compound.
NLTypes == 3
MaxMembers == 2

\* Most items of a path after the start of w.raws.plants.all.
MaxTail == 2

\* Most items of a path written and read back.
MaxPathLen == 3
\* Width of std::size_t in bits for the indices of a path.
SizeTBits == 8

\* Most enum-item elements of an enum.
MaxItems == 3

Pages == 0 .. NumPages - 1
NAddr == NumPages * PageSize
Addrs == 0 .. NAddr - 1

\* std::map iterators are modelled by their key; NoKey is end().
NoKey == 0 - 1

SetMin(S) == CHOOSE x \in S : \A y \in S : x <= y
SetMax(S) == CHOOSE x \in S : \A y \in S : x >= y

VARIABLES
    \* ---- ReadSession / target process ----
    sess,       \* "closed" | "open": a ReadSession object exists
    stopOk,     \* the stop() of the session's constructor returned success
    gen,        \* generation of the target's memory contents
    bad,        \* pages of the target that cannot be read
    \* ---- ProcessCache ----
    cache,      \* _cache: chunk start |-> [size, task, data]
    reqs,       \* suspended ProcessCache::read coroutines
    finished,   \* the ProcessCache::read calls that returned in the last step
    fetched,    \* per page: reads requested from the underlying process
                \* since the last stop()/cont()
    dropped,    \* a stop()/cont() has cleared a cache that held chunks
    \* ---- ProcessVectorizer and the tasks of one ReadSession::sync ----
    ceiling,    \* _max_total_size
    cur,        \* _current_total_size
    queue,      \* _read_tasks and _read_results, kept in step
    event,      \* _has_read_pending is set
    prog,       \* per task: the sizes of the reads it issues, in order
    tpc,        \* per task: where its coroutine stands
    tidx,       \* per task: the index of its current read
    tres,       \* per task: the task_result_t of its current read
    lpc,        \* where the flushing loop of ProcessVectorizer::sync stands
    stack,      \* the chain of resumptions: the last frame is running
    sync,       \* "none" | "idle" | "running" | "returned"
    syncRet,    \* what ReadSession::sync returned
    lastBatch,  \* the batch of the last readv on the wrapped process
    hist,       \* what has happened so far in this sync
    \* ---- ReaderFactory and the reads of compound types ----
    factory,    \* "none" | "built": a ReaderFactory object exists
    schema,     \* the Structures the factory was constructed with
    readers,    \* _readers: destination type |-> cached compound reader
    lastRead,   \* the last sync(read(ptr, var)) of a session
    \* ---- shared objects of one ReadSession ----
    external,   \* _external_shared_objects: base type |-> cache
    caches,     \* per cache: address |-> (type, shared task)
    status,     \* per shared task: "unused" | "pending" | "done" | "failed"
    sreads,     \* the make_shared calls of the session, in order
    \* ---- union decoding ----
    dread,      \* the last read of a variant item reader or of a union
                \* compound reader
    oor,        \* the readers that have been given a discriminator that is
                \* neither SIZE_MAX nor the index of an alternative
    \* ---- one read of a compound reader ----
    skind,      \* "none" | "seq" | "unseq": StructureReaderSeq or
                \* StructureReader
    sfields,    \* per field: whether its read suspends, whether it fails
    fstate,     \* per field: "idle" | "running" | "done" | "failed"
    fobs,       \* per field: the fields whose read was complete when its
                \* discriminator was evaluated
    fresult,    \* "none" | "ok" | "InvalidField"
    \* ---- polymorphic reader ----
    preader,    \* the PolymorphicReader of the factory, once constructed
    pread,      \* the last read through the polymorphic reader
    \* ---- std::vector reader ----
    stdvec,     \* the last read of a std::vector: what was read and the
                \* outcome
    \* ---- linked list reader ----
    dflist,     \* the read of a linked list in progress: the target's next
                \* pointers, the head, the loop's position and the outcome
    \* ---- reads of a native process ----
    native,     \* the read or readv call in progress on a LinuxProcessCommon
                \* or a Win32Process: what was requested, what the system
                \* transferred, and the error returned
    \* ---- layout computation ----
    layout,     \* the construction of a MemoryLayout in progress: the types
                \* of the structures, the types whose info is computed, those
                \* left to visit, and whether the construction has thrown
    \* ---- type info ----
    tinfo,      \* the last type info computed: of a compound (with its
                \* parent) or of a std container, under an ABI
    \* ---- path resolution ----
    resolved,   \* the last call of Pointer::fromGlobal: the type of the
                \* member all, the path, and the pointer or the error
    \* ---- path syntax ----
    parsed,     \* the last path written by to_string and read back by
                \* parse_path: the path, the string and the outcome
    \* ---- enum construction ----
    enum        \* the last Enum constructed: the enum-item elements, the
                \* values by name and the count

cacheVars == <<sess, stopOk, gen, bad, cache, reqs, finished, fetched, dropped>>

vecVars == <<ceiling, cur, queue, event, prog, tpc, tidx, tres, lpc, stack,
             sync, syncRet, lastBatch, hist>>

factVars == <<factory, schema, readers, lastRead>>

shVars == <<external, caches, status, sreads>>

unVars == <<dread, oor>>

seqVars == <<skind, sfields, fstate, fobs, fresult>>

polyVars == <<preader, pread>>

stdVecVars == <<stdvec>>

listVars == <<dflist>>

nativeVars == <<native>>

layoutVars == <<layout>>

infoVars == <<tinfo>>

resolveVars == <<resolved>>

syntaxVars == <<parsed>>

enumVars == <<enum>>

vars == <<cacheVars, vecVars, factVars, shVars, unVars, seqVars, polyVars,
          stdVecVars, listVars, nativeVars, layoutVars, infoVars,
          resolveVars, syntaxVars, enumVars>>

\* The variables of the other components, which the actions of one
\* component leave alone.
notCache == <<vecVars, factVars, shVars, unVars, seqVars, polyVars,
              stdVecVars, listVars, nativeVars, layoutVars, infoVars,
              resolveVars, syntaxVars, enumVars>>
notVec == <<cacheVars, factVars, shVars, unVars, seqVars, polyVars,
            stdVecVars, listVars, nativeVars, layoutVars, infoVars,
            resolveVars, syntaxVars, enumVars>>
notFact == <<cacheVars, vecVars, shVars, unVars, seqVars, polyVars,
             stdVecVars, listVars, nativeVars, layoutVars, infoVars,
             resolveVars, syntaxVars, enumVars>>
notShared == <<cacheVars, vecVars, factVars, unVars, seqVars, polyVars,
               stdVecVars, listVars, nativeVars, layoutVars, infoVars,
               resolveVars, syntaxVars, enumVars>>
notUnion == <<cacheVars, vecVars, factVars, shVars, seqVars, polyVars,
              stdVecVars, listVars, nativeVars, layoutVars, infoVars,
              resolveVars, syntaxVars, enumVars>>
notSeq == <<cacheVars, vecVars, factVars, shVars, unVars, polyVars,
            stdVecVars, listVars, nativeVars, layoutVars, infoVars,
            resolveVars, syntaxVars, enumVars>>
notPoly == <<cacheVars, vecVars, factVars, shVars, unVars, seqVars,
             stdVecVars, listVars, nativeVars, layoutVars, infoVars,
             resolveVars, syntaxVars, enumVars>>
notStdVec == <<cacheVars, vecVars, factVars, shVars, unVars, seqVars,
               polyVars, listVars, nativeVars, layoutVars, infoVars,
               resolveVars, syntaxVars, enumVars>>
notList == <<cacheVars, vecVars, factVars, shVars, unVars, seqVars, polyVars,
             stdVecVars, nativeVars, layoutVars, infoVars, resolveVars,
             syntaxVars, enumVars>>
notNative == <<cacheVars, vecVars, factVars, shVars, unVars, seqVars,
               polyVars, stdVecVars, listVars, layoutVars, infoVars,
               resolveVars, syntaxVars, enumVars>>
notLayout == <<cacheVars, vecVars, factVars, shVars, unVars, seqVars,
               polyVars, stdVecVars, listVars, nativeVars, infoVars,
               resolveVars, syntaxVars, enumVars>>
notInfo == <<cacheVars, vecVars, factVars, shVars, unVars, seqVars, polyVars,
             stdVecVars, listVars, nativeVars, layoutVars, resolveVars,
             syntaxVars, enumVars>>
notResolve == <<cacheVars, vecVars, factVars, shVars, unVars, seqVars,
                polyVars, stdVecVars, listVars, nativeVars, layoutVars,
                infoVars, syntaxVars, enumVars>>
notSyntax == <<cacheVars, vecVars, factVars, shVars, unVars, seqVars,
               polyVars, stdVecVars, listVars, nativeVars, layoutVars,
               infoVars, resolveVars, enumVars>>
notEnum == <<cacheVars, vecVars, factVars, shVars, unVars, seqVars, polyVars,
             stdVecVars, listVars, nativeVars, layoutVars, infoVars,
             resolveVars, syntaxVars>>

(***************************************************************************)
(* The target process: the byte held at an address.                        *)
(***************************************************************************)
Byte(g, a) == g * NAddr + a + 1

PageOf(a) == a \div PageSize

\* Process::read of [start, start+len) on the wrapped process: an error
\* when the range touches an unreadable page.
RawReadOk(start, len) ==
    \A a \in start .. start + len - 1 : PageOf(a) \notin bad

RawData(g, start, len) == [i \in 1 .. len |-> Byte(g, start + i - 1)]

(***************************************************************************)
(* ProcessCache (Process.h, Process.cpp).                                  *)
(***************************************************************************)
\* buffer.address & ~(PageSize-1)
PageFloor(a) == a - (a % PageSize)

\* The lambda chunk_end of ProcessCache::read.
chunk_end(c, k) == k + c[k].size

\* _cache.upper_bound(a), _cache.begin(), prev(it), next(it).
UpperBound(c, a) ==
    LET S == {k \in DOMAIN c : k > a}
    IN  IF S = {} THEN NoKey ELSE SetMin(S)

Begin(c) == IF DOMAIN c = {} THEN NoKey ELSE SetMin(DOMAIN c)

PrevIt(c, it) == SetMax({k \in DOMAIN c : it = NoKey \/ k < it})

NextIt(c, it) == UpperBound(c, it)

\* read_chunk reading one page however long the gap is.
read_chunk_one_page(c, start_page, end_page) ==
    IF start_page \in DOMAIN c
    THEN [c EXCEPT ![start_page].task = "pending"]
    ELSE [k \in DOMAIN c \cup {start_page} |->
            IF k = start_page
            THEN [size |-> PageSize, task |-> "pending", data |-> <<>>]
            ELSE c[k]]

\* The lambda read_chunk: emplace_hint (which keeps an element already
\* stored under the key) and the assignment of a fresh shared task.
read_chunk(c, start_page, end_page) ==
    IF start_page \in DOMAIN c
    THEN [c EXCEPT ![start_page].task = "pending"]
    ELSE [k \in DOMAIN c \cup {start_page} |->
            IF k = start_page
            THEN [size |-> end_page - start_page, task |-> "pending", data |-> <<>>]
            ELSE c[k]]

\* FirstChunk without the look at the chunk that follows the request's
\* first page (Process.cpp:73-74).
FirstChunkWholeRange(c, address, size) ==
    LET start_page == PageFloor(address)
        end_page == PageFloor(address + size - 1) + PageSize
        ub == UpperBound(c, address)
    IN  IF ub = Begin(c) \/ chunk_end(c, PrevIt(c, ub)) <= address
        THEN [c |-> read_chunk(c, start_page, end_page), it |-> start_page,
              new |-> << <<start_page, end_page - start_page>> >>]
        ELSE [c |-> c, it |-> PrevIt(c, ub), new |-> <<>>]

\* Lines 67-81: the chunk holding the first byte of the request.
FirstChunk(c, address, size) ==
    LET start_page == PageFloor(address)
        end_page == PageFloor(address + size - 1) + PageSize
        ub == UpperBound(c, address)
    IN  IF ub = Begin(c) \/ chunk_end(c, PrevIt(c, ub)) <= address
        THEN IF ub # NoKey /\ address + size > ub
             THEN [c |-> read_chunk(c, start_page, ub), it |-> start_page,
                   new |-> << <<start_page, ub - start_page>> >>]
             ELSE [c |-> read_chunk(c, start_page, end_page), it |-> start_page,
                   new |-> << <<start_page, end_page - start_page>> >>]
        ELSE [c |-> c, it |-> PrevIt(c, ub), new |-> <<>>]

\* Lines 82-93: the loop over the following chunks, filling the gaps.
RECURSIVE WalkChunks(_, _, _, _, _)
WalkChunks(c, it, chunks, new, end_page) ==
    IF it # NoKey /\ chunk_end(c, it) < end_page
    THEN LET nx == NextIt(c, it)
             s == chunk_end(c, it)
         IN  IF nx = NoKey \/ nx >= end_page
             THEN WalkChunks(read_chunk(c, s, end_page), s, Append(chunks, s),
                             Append(new, <<s, end_page - s>>), end_page)
             ELSE IF s # nx
             THEN WalkChunks(read_chunk(c, s, nx), s, Append(chunks, s),
                             Append(new, <<s, nx - s>>), end_page)
             ELSE WalkChunks(c, nx, Append(chunks, nx), new, end_page)
    ELSE [c |-> c, chunks |-> chunks, new |-> new]

\* Lines 67-93: the chunks a request awaits, the cache with the chunks it
\* added, and the reads it schedules on the wrapped process.
PlanRead(c, address, size) ==
    LET f == FirstChunk(c, address, size)
    IN  WalkChunks(f.c, f.it, <<f.it>>, f.new,
                   PageFloor(address + size - 1) + PageSize)

\* CopyChunk writing every chunk at the start of the buffer.
CopyChunkAtStart(buf, address, len, addr, size, data) ==
    LET end == addr + size
        first == IF addr < address THEN address - addr ELSE 0
        last == size + (IF end > address + len THEN address + len - end ELSE 0)
    IN  [j \in 1 .. len |->
            IF (j - 1) + first < last THEN data[(j - 1) + first + 1] ELSE buf[j]]

\* Lines 105-115: std::copy of the part of one chunk that lies in the buffer.
CopyChunk(buf, address, len, addr, size, data) ==
    LET end == addr + size
        first == IF addr < address THEN address - addr ELSE 0
        last == size + (IF end > address + len THEN address + len - end ELSE 0)
        dst == IF addr < address THEN 0 ELSE addr - address
    IN  [j \in 1 .. len |->
            IF j - 1 >= dst /\ (j - 1 - dst) + first < last
            THEN data[(j - 1 - dst) + first + 1]
            ELSE buf[j]]

\* Lines 99-118: the loop over the awaited chunks; acc is [buf, ret].
RECURSIVE CopyAll(_, _, _, _)
CopyAll(c, r, i, acc) ==
    IF i > Len(r.chunks) THEN acc
    ELSE LET k == r.chunks[i]
         IN  IF c[k].task # "ok"
             THEN CopyAll(c, r, i + 1, [acc EXCEPT !.ret = c[k].task])
             ELSE CopyAll(c, r, i + 1,
                    [acc EXCEPT !.buf = CopyChunk(acc.buf, r.address, r.len,
                                                  k, c[k].size, c[k].data)])

\* What a ProcessCache::read returns once all its chunks are ready.
Finish(c, r) ==
    LET acc == CopyAll(c, r, 1, [buf |-> [j \in 1 .. r.len |-> 0], ret |-> "ok"])
    IN  [address |-> r.address, len |-> r.len, buf |-> acc.buf, ret |-> acc.ret,
         chunks |-> r.chunks]

AllReady(c, r) == \A i \in 1 .. Len(r.chunks) : c[r.chunks[i]].task # "pending"

\* stop()/cont() that leave the cache as it is.
KeepCache(c) == c

\* _cache.clear() of ProcessCache::stop and ProcessCache::cont.
ClearCache(c) == <<>>

NoFetch == [p \in Pages |-> 0]

\* The pages of the reads scheduled on the wrapped process.
CountFetch(f, new) ==
    [p \in Pages |->
        LET n == Cardinality({i \in 1 .. Len(new) :
                    p * PageSize >= new[i][1] /\ p * PageSize < new[i][1] + new[i][2]})
        IN  IF f[p] + n > 2 THEN 2 ELSE f[p] + n]

(***************************************************************************)
(* Actions of the session / cache component.                               *)
(***************************************************************************)
\* The suspended requests resumed by their chunks having become ready.
Resumed(c, rq) == {r \in rq : AllReady(c, r)}

\* ReadSession::ReadSession (Reader.cpp:66-73) on a ProcessCache:
\* ProcessCache::stop clears the cache and stops the wrapped process; a
\* failure of stop() is logged and the session is open all the same.
SessionOpen ==
    /\ sess = "closed"
    /\ \E ok \in BOOLEAN :
        /\ sess' = "open"
        /\ stopOk' = ok
        /\ cache' = ClearCache(cache)
        /\ fetched' = NoFetch
        /\ finished' = {}
        /\ dropped' = (dropped \/ cache # <<>>)
        /\ UNCHANGED <<gen, bad, reqs, notCache>>

\* ReadSession::~ReadSession (Reader.cpp:75-79): ProcessCache::cont.  sync
\* blocks until its tasks are complete, so no read is suspended here.
SessionClose ==
    /\ sess = "open"
    /\ reqs = {}
    /\ sess' = "closed"
    /\ stopOk' = FALSE
    /\ cache' = ClearCache(cache)
    /\ fetched' = NoFetch
    /\ finished' = {}
    /\ dropped' = (dropped \/ cache # <<>>)
    /\ UNCHANGED <<gen, bad, reqs, notCache>>

\* The target, while it is not stopped, rewrites its memory.
TargetRuns ==
    /\ ~stopOk
    /\ gen < MaxGen
    /\ gen' = gen + 1
    /\ finished' = {}
    /\ UNCHANGED <<sess, stopOk, bad, cache, reqs, fetched, dropped, notCache>>

\* The target, while it is not stopped, unmaps its last page.
TargetUnmaps ==
    /\ ~stopOk
    /\ bad = {}
    /\ bad' = {NumPages - 1}
    /\ finished' = {}
    /\ UNCHANGED <<sess, stopOk, gen, cache, reqs, fetched, dropped, notCache>>

\* ProcessCache::read up to its co_await (Process.cpp:53-98); when every
\* awaited chunk is ready already, through to its co_return.
CacheRead ==
    /\ sess = "open"
    /\ Cardinality(reqs) < MaxReq
    /\ \E address \in Addrs, len \in 1 .. NAddr :
        /\ address + len <= NAddr
        /\ LET plan == PlanRead(cache, address, len)
               r == [address |-> address, len |-> len, chunks |-> plan.chunks]
           IN  /\ cache' = plan.c
               /\ fetched' = CountFetch(fetched, plan.new)
               /\ IF AllReady(plan.c, r)
                  THEN /\ finished' = {Finish(plan.c, r)}
                       /\ UNCHANGED reqs
                  ELSE /\ finished' = {}
                       /\ reqs' = reqs \cup {r}
    /\ UNCHANGED <<sess, stopOk, gen, bad, dropped, notCache>>

\* The read of one chunk on the wrapped process completes (the lambda at
\* Process.cpp:60-63), and the requests awaiting it whose chunks are now
\* all ready run to their co_return (Process.cpp:99-118).
ChunkComplete ==
    /\ \E k \in DOMAIN cache :
        /\ cache[k].task = "pending"
        /\ LET c2 == IF RawReadOk(k, cache[k].size)
                     THEN [cache EXCEPT ![k].task = "ok",
                                        ![k].data = RawData(gen, k, cache[k].size)]
                     ELSE [cache EXCEPT ![k].task = "EFAULT"]
               done == Resumed(c2, reqs)
           IN  /\ cache' = c2
               /\ finished' = {Finish(c2, r) : r \in done}
               /\ reqs' = reqs \ done
    /\ UNCHANGED <<sess, stopOk, gen, bad, fetched, dropped, notCache>>

CacheInit ==
    /\ sess = "closed"
    /\ stopOk = FALSE
    /\ gen = 0
    /\ bad = {}
    /\ cache = <<>>
    /\ reqs = {}
    /\ finished = {}
    /\ fetched = NoFetch
    /\ dropped = FALSE

CacheNext ==
    \/ SessionOpen
    \/ SessionClose
    \/ TargetRuns
    \/ TargetUnmaps
    \/ CacheRead
    \/ ChunkComplete

(***************************************************************************)
(* Claims on the session / cache component.                                *)
(***************************************************************************)
PagesOfRange(start, len) == {p \in Pages : p * PageSize + PageSize > start
                                            /\ p * PageSize < start + len}

\* C3: every read a session issues to the process happens while the target
\* is stopped: no read is in flight on a process whose stop() did not
\* succeed.
C3_ReadsOnlyWhileStopped ==
    (\E k \in DOMAIN cache : cache[k].task = "pending") => (sess = "open" /\ stopOk)

\* C4: a ProcessCache read that returns success has filled the whole buffer
\* with exactly the bytes the (stopped) target holds at
\* [address, address+length).
C4_CacheReadExact ==
    (sess = "open" /\ stopOk) =>
        \A f \in finished :
            f.ret = "ok" => f.buf = RawData(gen, f.address, f.len)

\* A successful read, unaligned at both ends, assembled from several chunks.
C4_Witness ==
    /\ sess = "open" /\ stopOk
    /\ \E f \in finished :
        /\ f.ret = "ok"
        /\ f.address % PageSize # 0
        /\ (f.address + f.len) % PageSize # 0
        /\ f.len > PageSize
        /\ Len(f.chunks) >= 2

\* C8: between two clears of the cache no page of the target is requested
\* from the underlying process more than once.
C8_PageFetchedOnce == \A p \in Pages : fetched[p] <= 1

\* Two suspended requests share a pending chunk, and one of them has
\* scheduled a read of its own for the rest of its range.
C8_Witness ==
    \E r1 \in reqs, r2 \in reqs :
        /\ r1 # r2
        /\ \E i \in 1 .. Len(r1.chunks), j \in 1 .. Len(r2.chunks) :
            /\ r1.chunks[i] = r2.chunks[j]
            /\ cache[r1.chunks[i]].task = "pending"
        /\ \E j \in 1 .. Len(r2.chunks) :
            \A i \in 1 .. Len(r1.chunks) : r1.chunks[i] # r2.chunks[j]

\* C9: stop() and cont() empty the cache: every chunk the cache holds, and
\* every page of a read that returned, has been requested from the
\* underlying process since the last stop()/cont().
C9_FetchedAgainAfterStop ==
    /\ \A k \in DOMAIN cache :
        \A p \in PagesOfRange(k, cache[k].size) : fetched[p] >= 1
    /\ \A f \in finished :
        \A p \in PagesOfRange(f.address, f.len) : fetched[p] >= 1

\* A read returns in a session opened after a stop()/cont() dropped chunks
\* and after the target rewrote its memory.
C9_Witness ==
    /\ dropped
    /\ gen > 0
    /\ sess = "open" /\ stopOk
    /\ \E f \in finished : f.ret = "ok" /\ f.buf = RawData(gen, f.address, f.len)

\* The scenario S5: a request of two pages and a half that starts in the
\* first page of the target, and a request for the whole second page.
S5Len == 2 * PageSize + PageSize \div 2

S5First(r) == r.address < PageSize /\ r.len = S5Len

S5Second(r) == r.address = PageSize /\ r.len = PageSize

\* A step of ProcessCache::read that takes the first request of S5 on an
\* empty cache, and one that takes the second request while the chunk the
\* first one made is the whole cache.
S5FirstStep ==
    /\ sess = "open"
    /\ cache = <<>>
    /\ \E r \in reqs' \ reqs : S5First(r)

S5SecondStep ==
    /\ sess = "open"
    /\ DOMAIN cache = {0}
    /\ cache[0].size = 3 * PageSize
    /\ reqs \subseteq reqs'
    /\ \E r \in (reqs' \ reqs) \cup finished' : S5Second(r)

\* C27 as stated: the request of two pages and a half on an empty cache
\* makes the underlying process see exactly 3 page-aligned reads, one per
\* page, that cover the 3 pages, and the request for the middle page adds
\* no read.
C27_ThreePageReads ==
    [][/\ S5FirstStep =>
            /\ DOMAIN cache' = {p * PageSize : p \in 0 .. 2}
            /\ \A k \in DOMAIN cache' : cache'[k].size = PageSize
       /\ S5SecondStep => (DOMAIN cache' = DOMAIN cache /\ fetched' = fetched)]_vars

\* C27 (amended): the request of two pages and a half on an empty cache
\* makes the underlying process see exactly one page-aligned read, which
\* covers the 3 pages, and the request for the middle page that follows
\* adds no read.
C27_OneReadOfThreePages ==
    [][/\ S5FirstStep =>
            /\ DOMAIN cache' = {0}
            /\ cache'[0].size = 3 * PageSize
            /\ cache'[0].task = "pending"
            /\ \A p \in 0 .. 2 : fetched'[p] = 1
       /\ S5SecondStep => (DOMAIN cache' = DOMAIN cache /\ fetched' = fetched)]_vars

\* Both requests of S5 are suspended on the one chunk of 3 pages.
C27_Witness ==
    /\ DOMAIN cache = {0}
    /\ cache[0].size = 3 * PageSize
    /\ \E r1 \in reqs, r2 \in reqs :
        /\ S5First(r1) /\ r1.chunks = <<0>>
        /\ S5Second(r2) /\ r2.chunks = <<0>>

\* C29: a ProcessCache read of a range succeeds whenever a direct read of
\* that range on the underlying process would succeed, whichever other
\* ranges, unreadable neighbouring pages included, were requested since
\* the last clear of the cache.
C29_ReadableRangeSucceeds ==
    \A f \in finished : RawReadOk(f.address, f.len) => f.ret = "ok"

(***************************************************************************)
(* ProcessVectorizer (Process.h, Process.cpp:121-168) under the tasks of   *)
(* one ReadSession::sync.  The tasks are coroutines on one thread: setting *)
(* an event resumes its waiter inside the call, so the model keeps the     *)
(* chain of resumptions as a stack whose last frame is the code running.   *)
(***************************************************************************)
Tasks == 1 .. NTasks

\* The frame of the flushing loop of ProcessVectorizer::sync.
Loop == 0

\* Results of readv on the wrapped process.
ReadvResults == {"ok", "EFAULT"}

Frame(kind, who, results, ec, rv) ==
    [kind |-> kind, who |-> who, results |-> results, ec |-> ec, rv |-> rv]

DriverFrame == Frame("driver", Loop, <<>>, "ok", "ok")
TaskFrame(t) == Frame("task", t, <<>>, "ok", "ok")
LoopFrame == Frame("loop", Loop, <<>>, "ok", "ok")

Top == stack[Len(stack)]
Pop(st) == SubSeq(st, 1, Len(st) - 1)
Running(kind) == sync = "running" /\ stack # <<>> /\ Top.kind = kind

TaskOver(t) == tpc[t] \in {"done", "threw"}

\* shared_task.is_ready() of ProcessVectorizer::sync.
is_ready == \A t \in Tasks : TaskOver(t)

\* The error code read_pending hands to the waiters of a batch whose readv
\* returned rv: err is default-constructed and the result of the co_await
\* is dropped (Process.cpp:161-164).
read_pending_ec(rv) == "ok"

\* A set() that leaves the event as it was.
event_not_set(e) == e

\* _has_read_pending.set() with no waiter on the event: the event is set.
event_set(e) == TRUE

\* Whether ProcessVectorizer::read flushes before queueing (Process.cpp:129).
over_ceiling(total, size, max) == total + size > max

NoResult == [ready |-> FALSE, ec |-> "ok", rv |-> "ok"]

Sizes == 1 .. MaxSize

\* The reads of one task: at most MaxReads sizes.
Programs == UNION {[1 .. n -> Sizes] : n \in 0 .. MaxReads}

\* What has happened in a sync: whether a readv failed, who flushed, in how
\* many batches each buffer (the read idx of task t) was handed to readv,
\* and how many times its read returned to the submitter (both capped at 2).
NoHist == [failed |-> FALSE, byRead |-> FALSE, byLoop |-> FALSE,
           placed |-> [t \in Tasks |-> [i \in 1 .. MaxReads |-> 0]],
           returned |-> [t \in Tasks |-> [i \in 1 .. MaxReads |-> 0]]]

\* The counts of batches after the batch q was handed to readv.
Placed(placed, q) ==
    [t \in Tasks |-> [i \in 1 .. MaxReads |->
        LET n == Cardinality({j \in 1 .. Len(q) : q[j].t = t /\ q[j].idx = i})
        IN  IF placed[t][i] + n > 2 THEN 2 ELSE placed[t][i] + n]]

\* A read_pending that leaves the queued reads in the queue.
keep_queue(q) == q

\* std::move(_read_tasks), std::move(_read_results) (Process.cpp:157-158):
\* what the members hold after the vectors were moved from.
take_queue(q) == <<>>

\* ProcessVectorizer::ProcessVectorizer (Process.cpp:121-125).
VecConstruct ==
    /\ sync = "none"
    /\ ceiling' \in 1 .. MaxCeiling
    /\ sync' = "idle"
    /\ UNCHANGED <<cur, queue, event, prog, tpc, tidx, tres, lpc, stack,
                   syncRet, lastBatch, hist, notVec>>

\* ReadSession::sync (Reader.h) called with NTasks read tasks, calling
\* ProcessVectorizer::sync: when_all is about to start the tasks.
SyncStart ==
    /\ sync \in {"idle", "returned"}
    /\ sync' = "running"
    /\ prog' \in [Tasks -> Programs]
    /\ tpc' = [t \in Tasks |-> "init"]
    /\ tidx' = [t \in Tasks |-> 1]
    /\ tres' = [t \in Tasks |-> NoResult]
    /\ lpc' = "init"
    /\ stack' = <<DriverFrame>>
    /\ syncRet' = TRUE
    /\ hist' = NoHist
    /\ lastBatch' = [reads |-> <<>>, rv |-> "ok"]
    /\ UNCHANGED <<ceiling, cur, queue, event, notVec>>

\* when_all (Process.cpp:146, Reader.h sync): start the tasks one after the
\* other, then the flushing loop; once all of them are complete, sync
\* returns, true unless a task threw.
Driver ==
    /\ Running("driver")
    /\ IF \E t \in Tasks : tpc[t] = "init"
       THEN LET t == SetMin({u \in Tasks : tpc[u] = "init"})
            IN  /\ tpc' = [tpc EXCEPT ![t] = "run"]
                /\ stack' = Append(stack, TaskFrame(t))
                /\ UNCHANGED <<lpc, sync, syncRet>>
       ELSE IF lpc = "init"
       THEN /\ lpc' = "check"
            /\ stack' = Append(stack, LoopFrame)
            /\ UNCHANGED <<tpc, sync, syncRet>>
       ELSE /\ is_ready /\ lpc = "done"
            /\ sync' = "returned"
            /\ syncRet' = (\A t \in Tasks : tpc[t] # "threw")
            /\ stack' = <<>>
            /\ UNCHANGED <<tpc, lpc>>
    /\ UNCHANGED <<ceiling, cur, queue, event, prog, tidx, tres, lastBatch,
                   hist, notVec>>

\* ProcessVectorizer::read_pending up to its for loop (Process.cpp:157-162),
\* called by owner: the queue is taken and, unless it is empty, handed to
\* readv on the wrapped process, which returns rv.
ReadPendingEntry(owner, rv) ==
    /\ queue' = take_queue(queue)
    /\ cur' = 0
    /\ IF queue = <<>>
       THEN UNCHANGED <<stack, lastBatch, hist>>
       ELSE /\ stack' = Append(stack, Frame("flush", owner, queue,
                                            read_pending_ec(rv), rv))
            /\ lastBatch' = [reads |-> queue, rv |-> rv]
            /\ hist' = [hist EXCEPT !.failed = @ \/ rv # "ok",
                                    !.byRead = @ \/ owner # Loop,
                                    !.byLoop = @ \/ owner = Loop,
                                    !.placed = Placed(@, queue)]

\* A task at the start of its next read: ReadSession::read calls
\* ProcessVectorizer::read, which checks the ceiling (Process.cpp:129-130);
\* a task with no read left completes.
TaskRead ==
    /\ Running("task")
    /\ LET t == Top.who
       IN  /\ tpc[t] = "run"
           /\ IF tidx[t] > Len(prog[t])
              THEN /\ tpc' = [tpc EXCEPT ![t] = "done"]
                   /\ stack' = Pop(stack)
                   /\ UNCHANGED <<queue, cur, lastBatch, hist>>
              ELSE IF over_ceiling(cur, prog[t][tidx[t]], ceiling)
              THEN /\ \E rv \in ReadvResults : ReadPendingEntry(t, rv)
                   /\ tpc' = [tpc EXCEPT ![t] =
                                IF queue = <<>> THEN "enqueue" ELSE "flushing"]
              ELSE /\ tpc' = [tpc EXCEPT ![t] = "enqueue"]
                   /\ UNCHANGED <<queue, cur, stack, lastBatch, hist>>
    /\ UNCHANGED <<ceiling, event, prog, tidx, tres, lpc, sync, syncRet, notVec>>

\* Process.cpp:131-136: the read is queued, the event is set (which resumes
\* the flushing loop if it waits on the event) and the task waits for its
\* result.
TaskEnqueue ==
    /\ Running("task")
    /\ LET t == Top.who
       IN  /\ tpc[t] = "enqueue"
           /\ cur' = cur + prog[t][tidx[t]]
           /\ queue' = Append(queue, [t |-> t, idx |-> tidx[t],
                                      size |-> prog[t][tidx[t]]])
           /\ tres' = [tres EXCEPT ![t] = NoResult]
           /\ IF lpc = "wait"
              THEN /\ lpc' = "flush"
                   /\ stack' = Append(stack, LoopFrame)
                   /\ tpc' = [tpc EXCEPT ![t] = "afterset"]
                   /\ UNCHANGED event
              ELSE /\ event' = event_set(event)
                   /\ tpc' = [tpc EXCEPT ![t] = "await"]
                   /\ stack' = Pop(stack)
                   /\ UNCHANGED lpc
    /\ UNCHANGED <<ceiling, prog, tidx, sync, syncRet, lastBatch, hist, notVec>>

\* Process.cpp:136-137 and Reader.h ReadSession::read.  A task to which
\* set() has returned from the flushing loop it resumed waits for its
\* result unless it is ready already.  A task whose result is ready returns
\* result.ec from the read; it throws on an error code and goes on
\* otherwise.
TaskResume ==
    /\ Running("task")
    /\ LET t == Top.who
       IN  /\ tpc[t] \in {"afterset", "resumed"}
           /\ IF ~tres[t].ready
              THEN /\ tpc' = [tpc EXCEPT ![t] = "await"]
                   /\ stack' = Pop(stack)
                   /\ UNCHANGED <<tidx, hist>>
              ELSE /\ hist' = [hist EXCEPT !.returned[t][tidx[t]] =
                                  IF @ < 2 THEN @ + 1 ELSE @]
                   /\ IF tres[t].ec # "ok"
                      THEN /\ tpc' = [tpc EXCEPT ![t] = "threw"]
                           /\ stack' = Pop(stack)
                           /\ UNCHANGED tidx
                      ELSE /\ tpc' = [tpc EXCEPT ![t] = "run"]
                           /\ tidx' = [tidx EXCEPT ![t] = @ + 1]
                           /\ UNCHANGED stack
    /\ UNCHANGED <<ceiling, cur, queue, event, prog, tres, lpc, sync, syncRet,
                   lastBatch, notVec>>

\* Process.cpp:147-148: the loop ends once the tasks are complete, and
\* otherwise waits for the event (which it resets).
LoopCheck ==
    /\ Running("loop")
    /\ lpc = "check"
    /\ IF is_ready
       THEN /\ lpc' = "done"
            /\ stack' = Pop(stack)
            /\ UNCHANGED event
       ELSE IF event
       THEN /\ lpc' = "flush"
            /\ event' = FALSE
            /\ UNCHANGED stack
       ELSE /\ lpc' = "wait"
            /\ stack' = Pop(stack)
            /\ UNCHANGED event
    /\ UNCHANGED <<ceiling, cur, queue, prog, tpc, tidx, tres, sync, syncRet,
                   lastBatch, hist, notVec>>

\* Process.cpp:149: the loop calls read_pending.
LoopFlush ==
    /\ Running("loop")
    /\ lpc = "flush"
    /\ \E rv \in ReadvResults : ReadPendingEntry(Loop, rv)
    /\ lpc' = IF queue = <<>> THEN "check" ELSE "flushing"
    /\ UNCHANGED <<ceiling, event, prog, tpc, tidx, tres, sync, syncRet, notVec>>

\* Process.cpp:163-166: the for loop of read_pending.  Setting ready
\* resumes the waiter at once; after the last result read_pending returns
\* to its caller.
FlushSignal ==
    /\ Running("flush")
    /\ IF Top.results = <<>>
       THEN /\ stack' = Pop(stack)
            /\ IF Top.who = Loop
               THEN lpc' = "check" /\ UNCHANGED tpc
               ELSE tpc' = [tpc EXCEPT ![Top.who] = "enqueue"] /\ UNCHANGED lpc
            /\ UNCHANGED tres
       ELSE LET w == Head(Top.results).t
                rest == [Top EXCEPT !.results = Tail(@)]
            IN  /\ tres' = [tres EXCEPT ![w] =
                              [ready |-> TRUE, ec |-> Top.ec, rv |-> Top.rv]]
                /\ IF tpc[w] = "await"
                   THEN /\ tpc' = [tpc EXCEPT ![w] = "resumed"]
                        /\ stack' = Append(Append(Pop(stack), rest), TaskFrame(w))
                   ELSE /\ stack' = Append(Pop(stack), rest)
                        /\ UNCHANGED tpc
                /\ UNCHANGED lpc
    /\ UNCHANGED <<ceiling, cur, queue, event, prog, tidx, sync, syncRet,
                   lastBatch, hist, notVec>>

VecInit ==
    /\ ceiling = 0
    /\ cur = 0
    /\ queue = <<>>
    /\ event = FALSE
    /\ prog = [t \in Tasks |-> <<>>]
    /\ tpc = [t \in Tasks |-> "init"]
    /\ tidx = [t \in Tasks |-> 1]
    /\ tres = [t \in Tasks |-> NoResult]
    /\ lpc = "init"
    /\ stack = <<>>
    /\ sync = "none"
    /\ syncRet = TRUE
    /\ lastBatch = [reads |-> <<>>, rv |-> "ok"]
    /\ hist = NoHist

VecNext ==
    \/ VecConstruct
    \/ SyncStart
    \/ Driver
    \/ TaskRead
    \/ TaskEnqueue
    \/ TaskResume
    \/ LoopCheck
    \/ LoopFlush
    \/ FlushSignal

(***************************************************************************)
(* ReaderFactory, compound readers and the session reads of compound      *)
(* types.  Two destination structures: P has an integer member x and a    *)
(* member a of structure type A; A has an integer member y.               *)
(***************************************************************************)
Structs == {"P", "A"}

FieldNames == {"x", "a", "y"}

\* The Field<> parameters of each destination structure, in order.
FieldsOf == [P |-> <<"x", "a">>, A |-> <<"y">>]

\* The destination type of each member.
FieldType == [x |-> "int", a |-> "A", y |-> "int"]

\* The structures a read of a destination type goes through.
Deps == [P |-> {"P", "A"}, A |-> {"A"}]

\* What the schema holds for a member: a member of the expected type, no
\* such member, or a member of another type.
Shapes == {"ok", "missing", "badtype"}

\* A schema: which compounds it has, and the shape of each member.
Schemas == [found : [Structs -> BOOLEAN], field : [FieldNames -> Shapes]]

NoSchema == [found |-> [s \in Structs |-> TRUE],
             field |-> [f \in FieldNames |-> "ok"]]

\* An entry of _readers: no entry, an entry holding a null pointer, or a
\* compound reader with the set of members whose optional reader is engaged.
NoReader == [state |-> "absent", has |-> {}]

NoRead == [type |-> "none", ret |-> "none", dep |-> FALSE, threw |-> FALSE]

RECURSIVE getCompoundReader(_, _)
RECURSIVE ItemReaderStruct(_, _, _)
RECURSIVE FieldInit(_, _)
RECURSIVE setLayout(_, _, _)
RECURSIVE CompoundRead(_, _)

\* ReaderFactory::getCompoundReader<T>: the entry is inserted first; the
\* constructor of the compound reader throws when the schema has no such
\* compound, setLayout throws when a member failed; neither removes the entry.
getCompoundReader(rd, T) ==
    IF rd[T].state = "absent"
    THEN IF ~schema.found[T]
         THEN [rd |-> [rd EXCEPT ![T] = [state |-> "null", has |-> {}]],
               threw |-> TRUE, null |-> FALSE, ub |-> FALSE]
         ELSE LET l == setLayout([rd EXCEPT ![T] = [state |-> "made",
                                                    has |-> {}]], T, 1)
              IN  [rd |-> l.rd, threw |-> ~l.ok, null |-> FALSE, ub |-> l.ub]
    ELSE [rd |-> rd, threw |-> FALSE, null |-> (rd[T].state = "null"),
          ub |-> FALSE]

\* ItemReader<Struct>::ItemReader: shape is what the schema has where the
\* structure is expected.  Reading type through a null compound reader is
\* undefined.
ItemReaderStruct(rd, T, shape) ==
    LET g == getCompoundReader(rd, T)
    IN  IF g.threw \/ g.ub THEN [rd |-> g.rd, threw |-> g.threw, ub |-> g.ub]
        ELSE IF g.null THEN [rd |-> g.rd, threw |-> FALSE, ub |-> TRUE]
        ELSE [rd |-> g.rd, threw |-> (shape # "ok"), ub |-> FALSE]

\* Field::init for member f: does the schema have the member, and can its
\* ItemReader be constructed; the optional reader is engaged on success.
FieldInit(rd, f) ==
    IF schema.field[f] = "missing"
    THEN [rd |-> rd, ok |-> FALSE, ub |-> FALSE]
    ELSE IF FieldType[f] = "int"
    THEN [rd |-> rd, ok |-> (schema.field[f] = "ok"), ub |-> FALSE]
    ELSE LET r == ItemReaderStruct(rd, FieldType[f], schema.field[f])
         IN  [rd |-> r.rd, ok |-> ~r.threw /\ ~r.ub, ub |-> r.ub]

\* CompoundReaderBase::setLayout from member number i on: every member is
\* initialised, and the result is whether all of them succeeded.
setLayout(rd, T, i) ==
    IF i > Len(FieldsOf[T])
    THEN [rd |-> rd, ok |-> TRUE, ub |-> FALSE]
    ELSE LET f == FieldsOf[T][i]
             r == FieldInit(rd, f)
             engaged == IF r.ok
                        THEN [r.rd EXCEPT ![T].has = @ \cup {f}]
                        ELSE r.rd
         IN  IF r.ub THEN [rd |-> r.rd, ok |-> FALSE, ub |-> TRUE]
             ELSE LET l == setLayout(engaged, T, i + 1)
                  IN  [rd |-> l.rd, ok |-> r.ok /\ l.ok, ub |-> l.ub]

\* Field::read: a member whose optional reader is not engaged is skipped
\* and reported as read.
FieldRead(rd, T, f) ==
    IF f \in rd[T].has
    THEN IF FieldType[f] = "int" THEN TRUE
         ELSE CompoundRead(rd, FieldType[f])
    ELSE TRUE

\* StructureReaderSeq::read: TRUE when no member failed (no InvalidField).
CompoundRead(rd, T) ==
    \A i \in 1 .. Len(FieldsOf[T]) : FieldRead(rd, T, FieldsOf[T][i])

\* The construction of the reader of T has failed: it threw and left the
\* entry null or with a member that has no reader.
Incomplete(rd, T) ==
    \/ rd[T].state = "null"
    \/ /\ rd[T].state = "made"
       /\ rd[T].has # {FieldsOf[T][i] : i \in 1 .. Len(FieldsOf[T])}

\* ReaderFactory::ReaderFactory for some Structures.
FactoryConstruct ==
    /\ factory = "none"
    /\ factory' = "built"
    /\ schema' \in Schemas
    /\ readers' = [s \in Structs |-> NoReader]
    /\ lastRead' = NoRead
    /\ UNCHANGED notFact

\* ReadSession::sync(ReadSession::read(ptr, var)) for a pointer to a
\* compound T and a destination of type T; memOk is whether the memory of
\* the object can be read.
SessionRead ==
    \E T \in Structs, memOk \in BOOLEAN :
        LET r == ItemReaderStruct(readers, T, "ok")
            dep == \E s \in Deps[T] : Incomplete(r.rd, s)
        IN  /\ factory = "built"
            /\ readers' = r.rd
            /\ schema' = schema
            /\ IF r.ub
               THEN \E out \in {"true", "false", "crash"} :
                        /\ lastRead' = [type |-> T, ret |-> out, dep |-> dep,
                                        threw |-> FALSE]
                        /\ factory' = IF out = "crash" THEN "crashed"
                                      ELSE factory
               ELSE /\ lastRead' =
                        [type |-> T,
                         ret |-> IF ~r.threw /\ memOk /\ CompoundRead(r.rd, T)
                                 THEN "true" ELSE "false",
                         dep |-> dep,
                         threw |-> r.threw]
                    /\ factory' = factory
            /\ UNCHANGED notFact

FactInit ==
    /\ factory = "none"
    /\ schema = NoSchema
    /\ readers = [s \in Structs |-> NoReader]
    /\ lastRead = NoRead

FactNext ==
    \/ FactoryConstruct
    \/ SessionRead

(***************************************************************************)
(* Shared objects: ReadSession::getSharedObject called by the shared      *)
(* pointer readers.  A shared task stands for the object it creates.      *)
(***************************************************************************)
STypes == {"T1", "T2"}

\* Address 0 is the null pointer.
SAddrs == 0 .. MaxSAddr

\* Cache 0 is the session's _shared_objects, the others are caches of the
\* caller that can be registered with addSharedObjectsCache.
CacheIds == 0 .. NExt

ObjIds == 1 .. MaxObj

NoEntry == [type |-> "none", task |-> 0]

\* unordered_map::try_emplace reports an insertion when the key was absent.
always_inserted(entry) == TRUE
try_emplace_inserted(entry) == entry = NoEntry

\* The test of getSharedObject on an entry that was already there: the
\* type stored with it is the type asked for.
any_type(entry, T) == TRUE
same_type(entry, T) == entry.type = T

\* The cache getSharedObject<T> selects.
SelectCache(T) == IF external[T] # 0 THEN external[T] ELSE 0

\* ReadSession::addSharedObjectsCache<T>(cache) when T has no cache yet
\* (otherwise it throws and changes nothing).
AddSharedObjectsCache ==
    \E T \in STypes, c \in CacheIds \ {0} :
        /\ external[T] = 0
        /\ external' = [external EXCEPT ![T] = c]
        /\ UNCHANGED <<caches, status, sreads, notShared>>

\* PointerReader::make_shared_impl<T> for address addr, up to its co_await
\* on the shared task: null for address 0, otherwise getSharedObject.
MakeShared ==
    \E T \in STypes, addr \in SAddrs :
        /\ Len(sreads) < MaxSReads
        /\ IF addr = 0
           THEN /\ sreads' = Append(sreads,
                        [addr |-> 0, type |-> T, cache |-> 0, task |-> 0,
                         out |-> "null", pending |-> FALSE])
                /\ UNCHANGED <<caches, status>>
           ELSE LET c == SelectCache(T)
                    e == caches[c][addr]
                IN  IF try_emplace_inserted(e)
                    THEN \E k \in ObjIds :
                        /\ status[k] = "unused"
                        /\ \A j \in ObjIds : status[j] = "unused" => k <= j
                        /\ caches' = [caches EXCEPT ![c][addr] =
                                          [type |-> T, task |-> k]]
                        /\ status' = [status EXCEPT ![k] = "pending"]
                        /\ sreads' = Append(sreads,
                               [addr |-> addr, type |-> T, cache |-> c,
                                task |-> k, out |-> "task",
                                pending |-> FALSE])
                    ELSE /\ sreads' = Append(sreads,
                               IF ~same_type(e, T)
                               THEN [addr |-> addr, type |-> T, cache |-> c,
                                     task |-> 0, out |-> "mismatch",
                                     pending |-> FALSE]
                               ELSE [addr |-> addr, type |-> T, cache |-> c,
                                     task |-> e.task, out |-> "task",
                                     pending |->
                                         (status[e.task] = "pending")])
                         /\ UNCHANGED <<caches, status>>
        /\ UNCHANGED <<external, notShared>>

\* The shared task of an object finishes: make_unique returned the object
\* or threw.
ObjectComplete ==
    \E k \in ObjIds, ok \in BOOLEAN :
        /\ status[k] = "pending"
        /\ status' = [status EXCEPT ![k] = IF ok THEN "done" ELSE "failed"]
        /\ UNCHANGED <<external, caches, sreads, notShared>>

\* The session ends once its tasks are over; the caches of the caller
\* outlive it.
SharedSessionEnd ==
    /\ sreads # <<>>
    /\ \A k \in ObjIds : status[k] # "pending"
    /\ external' = [T \in STypes |-> 0]
    /\ caches' = [caches EXCEPT ![0] = [a \in SAddrs \ {0} |-> NoEntry]]
    /\ sreads' = <<>>
    /\ UNCHANGED <<status, notShared>>

SharedInit ==
    /\ external = [T \in STypes |-> 0]
    /\ caches = [c \in CacheIds |-> [a \in SAddrs \ {0} |-> NoEntry]]
    /\ status = [k \in ObjIds |-> "unused"]
    /\ sreads = <<>>

SharedNext ==
    \/ AddSharedObjectsCache
    \/ MakeShared
    \/ ObjectComplete
    \/ SharedSessionEnd

(***************************************************************************)
(* Union decoding: ItemReader<std::variant<T, Ts...>> and UnionReader.    *)
(***************************************************************************)
\* std::size_t(-1).
SIZE_MAX == 2 ^ SizeBits - 1

Discriminators == 0 .. SIZE_MAX

\* std::nullopt of selectAlternative.
NoAlt == 0 - 1

\* selectAlternative over the indices 0 .. n-1 with the condition
\* I == discriminator: the first matching index, if any.
select_first(n, disc) == IF n > 0 THEN 0 ELSE NoAlt
selectAlternative(n, disc) == IF disc \in 0 .. n - 1 THEN disc ELSE NoAlt

\* ItemReader<std::variant<T, Ts...>>::operator(): n alternatives with a
\* reader each (engaged or not), preceded in the variant by monostate when
\* mono; before is the index the destination holds, ok whether the reader
\* of the selected alternative succeeds.  The result is the index the
\* destination holds afterwards, the alternative read and the error.
VariantRead(n, mono, engaged, before, disc, ok) ==
    LET I == selectAlternative(n, disc)
        index_offset == IF mono THEN 1 ELSE 0
    IN  IF I = NoAlt
        THEN [index |-> 0, read |-> NoAlt, err |-> "none"]
        ELSE IF I \in engaged
        THEN [index |-> I + index_offset, read |-> I,
              err |-> IF ok THEN "none" ELSE "ItemError"]
        ELSE [index |-> before, read |-> NoAlt, err |-> "broken_promise"]

\* UnionReader::read: n fields; Field::read of the selected field returns
\* true when its reader is not engaged, and ok otherwise.
UnionRead(n, engaged, disc, ok) ==
    IF disc = SIZE_MAX
    THEN [read |-> NoAlt, err |-> "none"]
    ELSE LET I == selectAlternative(n, disc)
         IN  IF I = NoAlt
             THEN [read |-> NoAlt, err |-> "InvalidDiscriminator"]
             ELSE IF I \in engaged
             THEN [read |-> I, err |-> IF ok THEN "none" ELSE "InvalidField"]
             ELSE [read |-> NoAlt, err |-> "none"]

NoDRead == [kind |-> "none", n |-> 0, mono |-> FALSE, engaged |-> {},
            before |-> 0, disc |-> 0, ok |-> TRUE,
            res |-> [index |-> 0, read |-> NoAlt, err |-> "none"]]

OutOfRange(n, disc) == disc # SIZE_MAX /\ disc \notin 0 .. n - 1

\* A variant with n alternatives besides an optional monostate is read
\* with an externally supplied discriminator.
ReadVariant ==
    \E n \in 1 .. MaxAlt, mono \in BOOLEAN, disc \in Discriminators,
       ok \in BOOLEAN :
        \E engaged \in SUBSET (0 .. n - 1),
           before \in 0 .. n - 1 + (IF mono THEN 1 ELSE 0) :
            /\ dread' = [kind |-> "variant", n |-> n, mono |-> mono,
                         engaged |-> engaged, before |-> before,
                         disc |-> disc, ok |-> ok,
                         res |-> VariantRead(n, mono, engaged, before,
                                             disc, ok)]
            /\ oor' = IF OutOfRange(n, disc) THEN oor \cup {"variant"}
                      ELSE oor
            /\ UNCHANGED notUnion

\* A union with n fields is read with an externally supplied discriminator;
\* the destination is a plain union, which holds no index.
ReadUnion ==
    \E n \in 1 .. MaxAlt, disc \in Discriminators, ok \in BOOLEAN :
        \E engaged \in SUBSET (0 .. n - 1) :
            LET r == UnionRead(n, engaged, disc, ok)
            IN  /\ dread' = [kind |-> "union", n |-> n, mono |-> FALSE,
                             engaged |-> engaged, before |-> 0,
                             disc |-> disc, ok |-> ok,
                             res |-> [index |-> 0, read |-> r.read,
                                      err |-> r.err]]
                /\ oor' = IF OutOfRange(n, disc) THEN oor \cup {"union"}
                          ELSE oor
                /\ UNCHANGED notUnion

UnionInit ==
    /\ dread = NoDRead
    /\ oor = {}

UnionNext ==
    \/ ReadVariant
    \/ ReadUnion

(***************************************************************************)
(* One read of a structure by StructureReaderSeq or StructureReader.  A    *)
(* field read is a lazy coroutine: Field::read evaluates the discriminator *)
(* on the destination when it starts, and either completes at once or      *)
(* suspends on a read of the process and completes when resumed.           *)
(***************************************************************************)
Fields == 1 .. NFields

FieldBehaviours == [suspends : [Fields -> BOOLEAN], fails : [Fields -> BOOLEAN]]

NoBehaviour == [suspends |-> [i \in Fields |-> FALSE],
                fails |-> [i \in Fields |-> FALSE]]

Completed(fs) == {j \in Fields : fs[j] \in {"done", "failed"}}

\* What Field::read returns: false when the reader of the field threw.
Outcome(b, i) == IF b.fails[i] THEN "failed" ELSE "done"

\* Whether the reader waits for the field it has started before it starts
\* the next one: StructureReaderSeq co_awaits each Field::read in its fold
\* expression, StructureReader starts every task through when_all.
never_awaits(kind) == FALSE
awaits_each_field(kind) == kind = "seq"

\* The fields are started in declaration order from field i on, until one
\* the reader waits for suspends.
RECURSIVE RunFields(_, _, _, _, _)
RunFields(kind, b, i, fs, obs) ==
    IF i > NFields THEN [fs |-> fs, obs |-> obs]
    ELSE LET seen == [obs EXCEPT ![i] = Completed(fs)]
         IN  IF b.suspends[i]
             THEN LET started == [fs EXCEPT ![i] = "running"]
                  IN  IF awaits_each_field(kind)
                      THEN [fs |-> started, obs |-> seen]
                      ELSE RunFields(kind, b, i + 1, started, seen)
             ELSE RunFields(kind, b, i + 1,
                            [fs EXCEPT ![i] = Outcome(b, i)], seen)

\* The end of read: InvalidField is thrown when a field returned false.
ReadResult(fs) ==
    IF \E j \in Fields : fs[j] \in {"idle", "running"} THEN "none"
    ELSE IF \E j \in Fields : fs[j] = "failed" THEN "InvalidField"
    ELSE "ok"

\* StructureReaderSeq::read or StructureReader::read is called on a
\* structure whose fields behave as b, and runs until it suspends or
\* returns.
CompoundReadStart ==
    \E kind \in {"seq", "unseq"}, b \in FieldBehaviours :
        /\ skind = "none" \/ fresult # "none"
        /\ skind' = kind
        /\ sfields' = b
        /\ LET r == RunFields(kind, b, 1, [i \in Fields |-> "idle"],
                              [i \in Fields |-> {}])
           IN  /\ fstate' = r.fs
               /\ fobs' = r.obs
               /\ fresult' = ReadResult(r.fs)
        /\ UNCHANGED notSeq

\* The read of the process a field waits for completes: the field read
\* completes and the reader goes on with the fields not started yet.
FieldComplete ==
    \E i \in Fields :
        /\ fstate[i] = "running"
        /\ LET fs == [fstate EXCEPT ![i] = Outcome(sfields, i)]
               idle == {j \in Fields : fs[j] = "idle"}
               r == IF idle = {} THEN [fs |-> fs, obs |-> fobs]
                    ELSE RunFields(skind, sfields, SetMin(idle), fs, fobs)
           IN  /\ fstate' = r.fs
               /\ fobs' = r.obs
               /\ fresult' = ReadResult(r.fs)
        /\ UNCHANGED <<skind, sfields, notSeq>>

SeqInit ==
    /\ skind = "none"
    /\ sfields = NoBehaviour
    /\ fstate = [i \in Fields |-> "idle"]
    /\ fobs = [i \in Fields |-> {}]
    /\ fresult = "none"

SeqNext ==
    \/ CompoundReadStart
    \/ FieldComplete

(***************************************************************************)
(* PolymorphicReader<Base, Ts...>: type 0 is Base, the others are Ts.      *)
(* Addresses are words of WordBits bits.                                   *)
(***************************************************************************)
PTypes == 0 .. NTypes - 1

Words == 0 .. 2 ^ WordBits - 1

\* uintptr_t(-1): the entry of a type with no vtable address.
NoVtable == 2 ^ WordBits - 1

\* The vtable addresses of a version: type |-> address, or NoVtable when the
\* table has no entry for the symbol of the type; an address is the vtable
\* of one type only.
VersionTables ==
    {v \in [PTypes -> Words] :
        \A i, j \in PTypes : (i # j /\ v[i] = v[j]) => v[i] = NoVtable}

\* Base::fallback: not declared, or one of the three tags.  fallback_base
\* does not compile with an abstract Base.
Fallbacks == {"default", "nullptr", "base", "none"}

\* Process::base_offset(), as the word it is subtracted as.
BaseOffsets == {0, 2 ^ WordBits - 1}

\* PolymorphicReader::setLayout: when a compound reader cannot be obtained
\* every reader is null and every vtable is uintptr_t(-1); otherwise the
\* vtables are those of the version table.
PolyLayout(version, readersOk) ==
    [complete |-> readersOk,
     vtables |-> IF readersOk THEN version
                 ELSE [i \in PTypes |-> NoVtable]]

\* vtable -= base_offset on uintptr_t.
keep_word(word, base) == word
correct_offset(word, base) == (word - base) % (2 ^ WordBits)

\* selectAlternative with the condition vtable == vtables[I]: the first
\* matching type.
MatchVtable(vtables, vtable) ==
    LET S == {i \in PTypes : vtables[i] = vtable}
    IN  IF S = {} THEN NoAlt ELSE SetMin(S)

\* read_type<I>: T is allocated, its memory read and handed to the
\* compound reader of T.  how tells which of the reads fails.  Calling
\* through a null reader is undefined: und is the outcome of that.
read_type(r, I, how, und) ==
    IF r.abstract[I] THEN [type |-> NoAlt, err |-> "abstract", by |-> NoAlt]
    ELSE IF ~r.layout.complete
    THEN IF und = "crash"
         THEN [type |-> NoAlt, err |-> "crash", by |-> NoAlt]
         ELSE [type |-> I, err |-> "none", by |-> NoAlt]
    ELSE IF how = "body" THEN [type |-> NoAlt, err |-> "EFAULT", by |-> NoAlt]
    ELSE IF how = "compound"
    THEN [type |-> NoAlt, err |-> "InvalidField", by |-> I]
    ELSE [type |-> I, err |-> "none", by |-> I]

NullObject == [type |-> NoAlt, err |-> "none", by |-> NoAlt]

\* PolymorphicReader::read at an address whose first word is word, of a
\* process with base offset base.  The result is the concrete type of the
\* object returned (NoAlt for a null pointer), the error thrown and the
\* type whose compound reader has read the object.
PolyRead(r, word, base, how, und) ==
    IF how = "null" THEN NullObject
    ELSE IF how = "word" THEN [type |-> NoAlt, err |-> "EFAULT", by |-> NoAlt]
    ELSE LET vtable == correct_offset(word, base)
             I == MatchVtable(r.layout.vtables, vtable)
         IN  IF I # NoAlt THEN read_type(r, I, how, und)
             ELSE IF r.fallback = "nullptr" THEN NullObject
             ELSE IF r.fallback = "base" THEN read_type(r, 0, how, und)
             ELSE IF r.fallback = "none"
             THEN [type |-> NoAlt, err |-> "unknown vtable", by |-> NoAlt]
             ELSE IF ~r.abstract[0] THEN read_type(r, 0, how, und)
             ELSE NullObject

NoPolyReader == [built |-> FALSE,
                 abstract |-> [i \in PTypes |-> FALSE],
                 fallback |-> "default",
                 layout |-> PolyLayout([i \in PTypes |-> NoVtable], FALSE)]

NoPolyRead == [word |-> 0, base |-> 0, how |-> "none",
               res |-> NullObject]

\* ReaderFactory::getPolymorphicReader<Base> for the first time: the
\* reader is inserted in the cache, then setLayout fills it or throws.
GetPolymorphicReader ==
    /\ ~preader.built
    /\ \E abstract \in [PTypes -> BOOLEAN], fallback \in Fallbacks,
          version \in VersionTables, readersOk \in BOOLEAN :
        /\ fallback = "base" => ~abstract[0]
        /\ preader' = [built |-> TRUE, abstract |-> abstract,
                       fallback |-> fallback,
                       layout |-> PolyLayout(version, readersOk)]
        /\ UNCHANGED <<pread, notPoly>>

\* PolymorphicReader::read through the cached reader.
ReadPolymorphic ==
    /\ preader.built
    /\ pread.how = "none"
    /\ \E word \in Words, base \in BaseOffsets,
          how \in {"null", "word", "body", "compound", "ok"},
          und \in {"crash", "goes on"} :
        /\ pread' = [word |-> word, base |-> base, how |-> how,
                     res |-> PolyRead(preader, word, base, how, und)]
        /\ UNCHANGED <<preader, notPoly>>

\* The caller has taken the outcome of the read.
PolyReadReturn ==
    /\ pread.how # "none"
    /\ pread' = NoPolyRead
    /\ UNCHANGED <<preader, notPoly>>

PolyInit ==
    /\ preader = NoPolyReader
    /\ pread = NoPolyRead

PolyNext ==
    \/ GetPolymorphicReader
    \/ ReadPolymorphic
    \/ PolyReadReturn

(***************************************************************************)
(* Reading a std::vector: ABI::read_vector_common decodes {begin, end,     *)
(* end_capacity}, read_contiguous_data reads the items.                    *)
(***************************************************************************)
Pointers == 0 .. MaxPtr

\* The TypeInfo (size, alignment) of the items read.
ItemInfos == {[size |-> 1, align |-> 1], [size |-> 2, align |-> 1],
              [size |-> 2, align |-> 2]}

\* The item the target holds at an address.
ItemAt(a) == 10 + a

\* Items a destination can hold before it is read into.
OldItems == {<<>>, <<1>>, <<1, 2, 3>>}

\* The test on the length: end is not before begin and the difference is a
\* whole number of items.
length_multiple_only(ptr, info) == (ptr[2] - ptr[1]) % info.size = 0
length_ok(ptr, info) ==
    ~(ptr[2] < ptr[1] \/ (ptr[2] - ptr[1]) % info.size # 0)

\* ABI::read_vector_common on ptr = <<begin, end, end_capacity>>.
read_vector_common(ptr, info) ==
    IF \A i \in 1 .. 3 : ptr[i] = 0
    THEN [err |-> "none", data |-> 0, size |-> 0]
    ELSE IF \E i \in 1 .. 3 : ptr[i] % info.align # 0
    THEN [err |-> "UnalignedPointer", data |-> 0, size |-> 0]
    ELSE IF ~length_ok(ptr, info)
    THEN [err |-> "InvalidLength", data |-> 0, size |-> 0]
    ELSE IF ptr[3] < ptr[2] \/ (ptr[3] - ptr[1]) % info.size # 0
    THEN [err |-> "InvalidCapacity", data |-> 0, size |-> 0]
    ELSE [err |-> "none", data |-> ptr[1],
          size |-> (ptr[2] - ptr[1]) \div info.size]

\* The address of item i (from 0) of the buffer read at addr.
item_unscaled(addr, i, info) == addr + i
item_address(addr, i, info) == addr + i * info.size

\* read_contiguous_data: nothing is done for no item; otherwise the items
\* are read in one buffer, the destination is resized and each item reader
\* fills its item.  The result is the destination and the error.
read_contiguous_data(addr, len, info, out, readOk) ==
    IF len = 0 THEN [out |-> out, err |-> "none"]
    ELSE IF ~readOk THEN [out |-> out, err |-> "EFAULT"]
    ELSE [out |-> [i \in 1 .. len |-> ItemAt(item_address(addr, i - 1, info))],
          err |-> "none"]

\* read_std_vector: an error of read_vector is thrown.
read_std_vector(ptr, info, out, readOk) ==
    LET vec_info == read_vector_common(ptr, info)
    IN  IF vec_info.err # "none" THEN [out |-> out, err |-> vec_info.err]
        ELSE read_contiguous_data(vec_info.data, vec_info.size, info, out,
                                  readOk)

NoVectorRead == [ptr |-> <<0, 0, 0>>, info |-> [size |-> 1, align |-> 1],
                 before |-> <<>>, readOk |-> TRUE, done |-> FALSE,
                 vec_info |-> [err |-> "none", data |-> 0, size |-> 0],
                 out |-> <<>>, err |-> "none"]

\* A std::vector whose three pointers are ptr is read into a destination
\* holding the items before; readOk is whether the memory of the items can
\* be read.
ReadStdVector ==
    /\ ~stdvec.done
    /\ \E b \in Pointers, e \in Pointers, c \in Pointers,
          info \in ItemInfos, before \in OldItems, readOk \in BOOLEAN :
        LET r == read_std_vector(<<b, e, c>>, info, before, readOk)
        IN  /\ stdvec' = [ptr |-> <<b, e, c>>, info |-> info,
                          before |-> before, readOk |-> readOk,
                          done |-> TRUE,
                          vec_info |-> read_vector_common(<<b, e, c>>, info),
                          out |-> r.out, err |-> r.err]
            /\ UNCHANGED notStdVec

\* The caller has taken the outcome of the read.
StdVectorReturn ==
    /\ stdvec.done
    /\ stdvec' = NoVectorRead
    /\ UNCHANGED notStdVec

StdVecInit == stdvec = NoVectorRead

StdVecNext ==
    \/ ReadStdVector
    \/ StdVectorReturn

(***************************************************************************)
(* Reading a DF linked list: read_df_linkedlist walks the next pointers    *)
(* from the head, fetching each node, then reads the item of each node.    *)
(***************************************************************************)
NodeAddrs == 1 .. MaxNodes

\* The next pointer the target holds in each node; 0 is the null pointer.
NextMaps == [NodeAddrs -> 0 .. MaxNodes]

\* The item the target holds in the node at an address.
NodeItem(a) == 20 + a

\* The node whose item view is given to the reader of item i (from 1).
item_node_reversed(nodes, i) == nodes[Len(nodes) + 1 - i]
item_node(nodes, i) == nodes[i]

NoListRead == [pc |-> "idle", next |-> [a \in NodeAddrs |-> 0], head |-> 1,
               data |-> 0, nodes |-> <<>>, before |-> <<>>, out |-> <<>>,
               err |-> "none"]

\* read_df_linkedlist is called on the head node, already read, with a
\* destination holding the items before.
ReadLinkedList ==
    /\ dflist.pc = "idle"
    /\ \E next \in NextMaps, head \in NodeAddrs, before \in OldItems :
        /\ dflist' = [pc |-> "walk", next |-> next, head |-> head,
                      data |-> head, nodes |-> <<>>, before |-> before,
                      out |-> before, err |-> "none"]
        /\ UNCHANGED notList

\* One evaluation of the loop: the next pointer of the current node is
\* decoded; null ends the loop; otherwise a buffer is added for the node and
\* the node is read from the process, an error being thrown.  The vector of
\* buffers cannot grow beyond the memory available (MaxFetch buffers).
FetchNode ==
    /\ dflist.pc = "walk"
    /\ LET next_addr == dflist.next[dflist.data]
       IN  IF next_addr = 0
           THEN dflist' = [dflist EXCEPT !.pc = "items"]
           ELSE IF Len(dflist.nodes) = MaxFetch
           THEN dflist' = [dflist EXCEPT !.pc = "done", !.err = "bad_alloc"]
           ELSE \E readOk \in BOOLEAN :
                   dflist' =
                       IF readOk
                       THEN [dflist EXCEPT
                                !.nodes = Append(@, next_addr),
                                !.data = next_addr]
                       ELSE [dflist EXCEPT
                                !.nodes = Append(@, next_addr),
                                !.pc = "done", !.err = "EFAULT"]
    /\ UNCHANGED notList

\* After the loop the destination is resized to the number of nodes and one
\* item reader per node reads the item view of its node; the error of an
\* item reader is thrown, the items being then unspecified (0).
ReadListItems ==
    /\ dflist.pc = "items"
    /\ \E itemsOk \in BOOLEAN :
          dflist' =
              IF itemsOk
              THEN [dflist EXCEPT
                       !.out = [i \in 1 .. Len(dflist.nodes) |->
                                   NodeItem(item_node(dflist.nodes, i))],
                       !.pc = "done"]
              ELSE [dflist EXCEPT
                       !.out = [i \in 1 .. Len(dflist.nodes) |-> 0],
                       !.pc = "done", !.err = "item"]
    /\ UNCHANGED notList

\* The caller has taken the outcome of the read.
LinkedListReturn ==
    /\ dflist.pc = "done"
    /\ dflist' = NoListRead
    /\ UNCHANGED notList

ListInit == dflist = NoListRead

ListNext ==
    \/ ReadLinkedList
    \/ FetchNode
    \/ ReadListItems
    \/ LinkedListReturn

(***************************************************************************)
(* Reads of a native process: LinuxProcessCommon::read and readv over      *)
(* process_vm_readv, Win32Process::read over ReadProcessMemory.            *)
(***************************************************************************)
BufferSizes == 1 .. MaxBuf

\* The buffers of a readv call, by size.
RECURSIVE TaskLists(_)
TaskLists(n) ==
    IF n = 0 THEN {<<>>}
    ELSE TaskLists(n - 1) \cup
         {Append(t, s) : t \in {u \in TaskLists(n - 1) : Len(u) = n - 1},
                         s \in BufferSizes}

RECURSIVE SumSizes(_, _, _)
SumSizes(sizes, from, to) ==
    IF from > to THEN 0 ELSE sizes[from] + SumSizes(sizes, from + 1, to)

\* What process_vm_readv can return when asked for bytes: -1 when nothing
\* could be transferred, otherwise the number of bytes transferred, which is
\* less than asked when the remote range runs into memory that cannot be
\* read.
process_vm_readv(bytes) ==
    {0 - 1} \cup (IF bytes = 0 THEN {0} ELSE 1 .. bytes)

\* What ReadProcessMemory can return: success with every byte copied, or
\* failure with the bytes copied before the failure.
ReadProcessMemory(bytes) ==
    {[ok |-> TRUE, r |-> bytes]} \cup
    {[ok |-> FALSE, r |-> r] : r \in 0 .. bytes - 1}

\* The test of LinuxProcessCommon::readv on the result of a batch.
batch_short(r, bytes) == r # bytes

NoNativeRead == [impl |-> "none", sizes |-> <<>>, task |-> 1,
                 requested |-> 0, transferred |-> 0, err |-> "none",
                 done |-> FALSE]

\* LinuxProcessCommon::read: one process_vm_readv of one local and one
\* remote range; only -1 is an error.
LinuxRead ==
    \E size \in BufferSizes :
      \E r \in process_vm_readv(size) :
        /\ native.impl = "none"
        /\ native' = [impl |-> "LinuxProcessCommon::read", sizes |-> <<size>>,
                      task |-> 2, requested |-> size,
                      transferred |-> IF r = 0 - 1 THEN 0 ELSE r,
                      err |-> IF r = 0 - 1 THEN "errno" ELSE "none",
                      done |-> TRUE]
        /\ UNCHANGED notNative

\* LinuxProcessCommon::readv is called on the buffers tasks.
LinuxReadvStart ==
    /\ native.impl = "none"
    /\ \E sizes \in TaskLists(MaxTasks) :
        /\ native' = [impl |-> "LinuxProcessCommon::readv", sizes |-> sizes,
                      task |-> 1,
                      requested |-> SumSizes(sizes, 1, Len(sizes)),
                      transferred |-> 0, err |-> "none", done |-> FALSE]
        /\ UNCHANGED notNative

\* One turn of the outer loop of readv: up to IOV_MAX buffers are given to
\* one process_vm_readv; a negative result returns errno, a result other
\* than the bytes asked returns EACCES; after the last buffer the call
\* returns without error.
LinuxReadvBatch ==
    /\ native.impl = "LinuxProcessCommon::readv"
    /\ ~native.done
    /\ IF native.task > Len(native.sizes)
       THEN native' = [native EXCEPT !.done = TRUE]
       ELSE LET last == IF native.task + IOV_MAX - 1 < Len(native.sizes)
                        THEN native.task + IOV_MAX - 1
                        ELSE Len(native.sizes)
                bytes == SumSizes(native.sizes, native.task, last)
            IN  \E r \in process_vm_readv(bytes) :
                  native' =
                    IF r < 0
                    THEN [native EXCEPT !.task = last + 1, !.err = "errno",
                                        !.done = TRUE]
                    ELSE IF batch_short(r, bytes)
                    THEN [native EXCEPT !.task = last + 1,
                                        !.transferred = @ + r,
                                        !.err = "EACCES", !.done = TRUE]
                    ELSE [native EXCEPT !.task = last + 1,
                                        !.transferred = @ + r]
    /\ UNCHANGED notNative

\* Win32Process::read: a failure of ReadProcessMemory returns GetLastError,
\* a count other than the size returns ERROR_PARTIAL_COPY.
Win32Read ==
    \E size \in BufferSizes :
      \E res \in ReadProcessMemory(size) :
        /\ native.impl = "none"
        /\ native' = [impl |-> "Win32Process::read", sizes |-> <<size>>,
                      task |-> 2, requested |-> size,
                      transferred |-> res.r,
                      err |-> IF ~res.ok THEN "GetLastError"
                              ELSE IF res.r # size THEN "ERROR_PARTIAL_COPY"
                              ELSE "none",
                      done |-> TRUE]
        /\ UNCHANGED notNative

\* The caller has taken the error code.
NativeReturn ==
    /\ native.done
    /\ native' = NoNativeRead
    /\ UNCHANGED notNative

NativeInit == native = NoNativeRead

NativeNext ==
    \/ LinuxRead
    \/ LinuxReadvStart
    \/ LinuxReadvBatch
    \/ Win32Read
    \/ NativeReturn

(***************************************************************************)
(* Layout computation: MemoryLayout::MemoryLayout visits the types left    *)
(* to visit; compute_info_t computes the info of a type from the info of   *)
(* the types its size depends on and leaves the others for later.          *)
(***************************************************************************)
LTypes == 1 .. NLTypes

\* A type is a compound (with an optional parent, 0 for none, and member
\* types), a pointer, a static array, a std container that requires
\* complete types (optional, variant), another std container, a DF container
\* (whose own compound holds pointers and primitive members only), or a
\* primitive type; all but compounds and primitive types have one type
\* parameter.
CompoundTypes ==
    [kind : {"compound"}, parent : 0 .. NLTypes,
     links : {m \in SUBSET LTypes : Cardinality(m) <= MaxMembers}]
ParamTypes ==
    [kind : {"pointer", "static-array", "std-complete", "std-container",
             "df-container"},
     parent : {0}, links : {{t} : t \in LTypes}]
PrimitiveTypes == [kind : {"primitive"}, parent : {0}, links : {{}}]

\* The structures: a parent is a compound, and types other than compounds
\* are not named, so that a type parameter refers to a compound or to a
\* type nested in it.
LSchemas ==
    {s \in [LTypes -> CompoundTypes \cup ParamTypes \cup PrimitiveTypes] :
        \A t \in LTypes :
            /\ s[t].parent # 0 => s[s[t].parent].kind = "compound"
            /\ s[t].kind # "compound" =>
                   \A u \in s[t].links : s[u].kind = "compound" \/ u > t}

\* The types inserted in unvisited by the constructor: the named types.
NamedTypes(s) ==
    {t \in LTypes : s[t].kind \in {"compound", "primitive", "df-container"}}

\* Whether the info of a type of this kind is computed without the info of
\* its type parameter, which is left for later.
defers_none(kind) == FALSE
defers(kind) == kind \in {"pointer", "std-container", "df-container"}

RECURSIVE compute_info(_, _, _)
RECURSIVE get_info(_, _, _)
RECURSIVE members_info(_, _, _)

\* get_info: the info already computed, otherwise compute_info.
get_info(s, t, st) ==
    IF st.err THEN st
    ELSE IF t \in st.info THEN st
    ELSE compute_info(s, t, st)

\* get_info of each of the types ts in turn.
members_info(s, ts, st) ==
    IF ts = {} \/ st.err THEN st
    ELSE LET t == SetMin(ts)
         IN  members_info(s, ts \ {t}, get_info(s, t, st))

\* compute_info_t::operator(): st holds the types with info, the compounds
\* in progress, the types left to visit, and whether "Cyclic dependency"
\* has been thrown.
compute_info(s, t, st) ==
    LET added(x) == [x EXCEPT !.unvisited = @ \ {t}, !.info = @ \cup {t}]
    IN  IF s[t].kind = "compound"
        THEN IF t \in st.in_progress THEN [st EXCEPT !.err = TRUE]
             ELSE LET st1 == [st EXCEPT !.in_progress = @ \cup {t}]
                      st2 == IF s[t].parent # 0
                             THEN get_info(s, s[t].parent, st1)
                             ELSE st1
                      st3 == members_info(s, s[t].links, st2)
                  IN  IF st3.err THEN st3
                      ELSE added([st3 EXCEPT !.in_progress = @ \ {t}])
        ELSE IF defers(s[t].kind)
        THEN added([st EXCEPT !.unvisited = @ \cup (s[t].links \ st.info)])
        ELSE LET st1 == members_info(s, s[t].links, st)
             IN  IF st1.err THEN st1 ELSE added(st1)

NoComputeInfo == [info |-> {}, in_progress |-> {}, unvisited |-> {},
                  err |-> FALSE]

NoLayout == [pc |-> "none", s |-> [t \in LTypes |->
                                     [kind |-> "primitive", parent |-> 0,
                                      links |-> {}]],
             st |-> NoComputeInfo]

\* MemoryLayout::MemoryLayout is called on structures: the named types are
\* left to visit.
LayoutConstruct ==
    /\ layout.pc = "none"
    /\ \E s \in LSchemas :
          layout' = [pc |-> IF NamedTypes(s) = {} THEN "done"
                            ELSE "computing",
                     s |-> s,
                     st |-> [NoComputeInfo EXCEPT
                                !.unvisited = NamedTypes(s)]]
    /\ UNCHANGED notLayout

\* One turn of the loop of the constructor: the info of the first type left
\* to visit (the first in the order of the addresses) is computed; the loop
\* ends when no type is left, the constructor throws when compute_info does.
LayoutVisit ==
    /\ layout.pc = "computing"
    /\ \E t \in layout.st.unvisited :
          LET st == compute_info(layout.s, t, layout.st)
          IN  layout' = [layout EXCEPT
                            !.st = st,
                            !.pc = IF st.err \/ st.unvisited = {}
                                   THEN "done" ELSE "computing"]
    /\ UNCHANGED notLayout

\* The constructor has returned or thrown.
LayoutReturn ==
    /\ layout.pc = "done"
    /\ layout' = NoLayout
    /\ UNCHANGED notLayout

LayoutInit == layout = NoLayout

LayoutNext ==
    \/ LayoutConstruct
    \/ LayoutVisit
    \/ LayoutReturn

(***************************************************************************)
(* Type info: the size, alignment and member offsets compute_info_t gives  *)
(* a compound, and the info ABI::container_info_common gives an optional   *)
(* or a variant.                                                           *)
(***************************************************************************)
computeAlign(offset, align) == ((offset + align - 1) \div align) * align

\* The info of the types a member or a type parameter can have: 8, 32 and
\* 64 bit integers and a structure of three 32 bit integers.
MemberInfos == {[size |-> 1, align |-> 1], [size |-> 4, align |-> 4],
                [size |-> 8, align |-> 8], [size |-> 12, align |-> 4]}

Compilers == {"GNU", "MS"}

\* The info of a pointer: 32 and 64 bit architectures.
PointerInfos == {[size |-> 4, align |-> 4], [size |-> 8, align |-> 8]}

RECURSIVE InfoLists(_)
InfoLists(n) ==
    IF n = 0 THEN {<<>>}
    ELSE InfoLists(n - 1) \cup
         {Append(l, m) : l \in {k \in InfoLists(n - 1) : Len(k) = n - 1},
                         m \in MemberInfos}

\* A compound of the structures: whether it has a vtable, whether it is a
\* union, and the info of its members.
Compounds ==
    [vtable : BOOLEAN, is_union : BOOLEAN, members : InfoLists(MaxMembers)]

Max(a, b) == IF a > b THEN a ELSE b

\* The loop over the members from member i: each member is put at the
\* offset aligned for it; the offset moves on unless the compound is a union.
RECURSIVE LayMembers(_, _, _)
LayMembers(c, i, acc) ==
    IF i > Len(c.members) THEN acc
    ELSE LET member_info == c.members[i]
             member_offset == computeAlign(acc.offset, member_info.align)
         IN  LayMembers(c, i + 1,
                 [offset |-> IF ~c.is_union
                             THEN member_offset + member_info.size
                             ELSE acc.offset,
                  union_size |-> IF ~c.is_union THEN acc.union_size
                                 ELSE Max(acc.union_size, member_info.size),
                  align |-> Max(acc.align, member_info.align),
                  member_offsets |-> Append(acc.member_offsets,
                                            member_offset)])

NoParentInfo == [size |-> 0, align |-> 0, unaligned_size |-> 0,
                 member_offsets |-> <<>>]

\* compute_info_t::operator()(const Compound &): has_parent and parent are
\* the info of the parent; the result is the info and the layout.
CompoundInfo(compiler, pointer, c, has_parent, parent) ==
    LET start ==
            IF has_parent
            THEN [offset |-> IF compiler = "GNU" THEN parent.unaligned_size
                             ELSE parent.size,
                  align |-> parent.align]
            ELSE IF c.vtable
            THEN [offset |-> pointer.size, align |-> pointer.align]
            ELSE [offset |-> 0, align |-> 1]
        acc == LayMembers(c, 1, [offset |-> start.offset, union_size |-> 0,
                                 align |-> start.align,
                                 member_offsets |-> <<>>])
        unaligned_size == IF c.is_union THEN acc.union_size ELSE acc.offset
    IN  [size |-> computeAlign(unaligned_size, acc.align),
         align |-> acc.align,
         unaligned_size |-> unaligned_size,
         member_offsets |-> acc.member_offsets]

\* The largest of f(x) over the items of a list.
RECURSIVE max_element(_, _, _)
max_element(l, i, field) ==
    IF i = Len(l) THEN l[i][field]
    ELSE Max(l[i][field], max_element(l, i + 1, field))

\* ABI::container_info_common for a container that requires complete
\* types.
container_info_common(type, item_type_info) ==
    IF type = "StdOptional"
    THEN IF Len(item_type_info) # 1
         THEN [err |-> "invalid_argument", size |-> 0, align |-> 0]
         ELSE [err |-> "none",
               size |-> item_type_info[1].align + item_type_info[1].size,
               align |-> item_type_info[1].align]
    ELSE IF Len(item_type_info) >= 1
         THEN LET size == max_element(item_type_info, 1, "size")
                  align == max_element(item_type_info, 1, "align")
              IN  [err |-> "none", size |-> align + size, align |-> align]
         ELSE [err |-> "invalid_argument", size |-> 0, align |-> 0]

NoTypeInfo == [kind |-> "none", compiler |-> "GNU",
               pointer |-> [size |-> 4, align |-> 4],
               c |-> [vtable |-> FALSE, is_union |-> FALSE,
                      members |-> <<>>],
               has_parent |-> FALSE,
               p |-> [vtable |-> FALSE, is_union |-> FALSE,
                      members |-> <<>>],
               parent |-> NoParentInfo, info |-> NoParentInfo,
               params |-> <<>>,
               cinfo |-> [err |-> "none", size |-> 0, align |-> 0]]

\* The info of a compound without parent is computed.
ComputeRootCompound ==
    /\ tinfo.kind = "none"
    /\ \E compiler \in Compilers, pointer \in PointerInfos, c \in Compounds :
          tinfo' = [NoTypeInfo EXCEPT
                       !.kind = "compound", !.compiler = compiler,
                       !.pointer = pointer, !.c = c,
                       !.info = CompoundInfo(compiler, pointer, c, FALSE,
                                             NoParentInfo)]
    /\ UNCHANGED notInfo

\* The info of a compound c whose parent is the compound p without parent:
\* the info of the parent is computed first (get_info).
ComputeDerivedCompound ==
    /\ tinfo.kind = "none"
    /\ \E compiler \in Compilers, pointer \in PointerInfos, c \in Compounds,
          p \in Compounds :
          LET parent == CompoundInfo(compiler, pointer, p, FALSE,
                                     NoParentInfo)
          IN  tinfo' = [NoTypeInfo EXCEPT
                           !.kind = "compound", !.compiler = compiler,
                           !.pointer = pointer, !.c = c,
                           !.has_parent = TRUE, !.p = p, !.parent = parent,
                           !.info = CompoundInfo(compiler, pointer, c, TRUE,
                                                 parent)]
    /\ UNCHANGED notInfo

\* The info of an optional or a variant is computed from the info of its
\* type parameters.
ComputeContainer ==
    /\ tinfo.kind = "none"
    /\ \E type \in {"StdOptional", "StdVariant"},
          params \in InfoLists(MaxMembers) :
          tinfo' = [NoTypeInfo EXCEPT
                       !.kind = type, !.params = params,
                       !.cinfo = container_info_common(type, params)]
    /\ UNCHANGED notInfo

\* The info has been added to the layout.
InfoReturn ==
    /\ tinfo.kind # "none"
    /\ tinfo' = NoTypeInfo
    /\ UNCHANGED notInfo

InfoInit == tinfo = NoTypeInfo

InfoNext ==
    \/ ComputeRootCompound
    \/ ComputeDerivedCompound
    \/ ComputeContainer
    \/ InfoReturn

(***************************************************************************)
(* Path resolution: Pointer::fromGlobal finds the global object and        *)
(* MemoryLayout::getOffset follows the rest of the path through compounds  *)
(* and static arrays, adding the offsets of the layout.                    *)
(***************************************************************************)
\* The structures: the global object w is a world, a world holds raws, raws
\* hold plants, plants hold a count and the member all, a plant_raw holds an
\* id and a name.  The type of all is one of AllTypes.
AllTypes == {"stl-vector<pointer<plant_raw>>", "pointer<plant_raw>[5]",
             "plant_raw[5]", "plant_raw", "int32_t"}

Members(allType) ==
    [world |-> <<[name |-> "raws", type |-> "raws"]>>,
     raws |-> <<[name |-> "plants", type |-> "plants"]>>,
     plants |-> <<[name |-> "count", type |-> "int32_t"],
                  [name |-> "all", type |-> allType]>>,
     plant_raw |-> <<[name |-> "id", type |-> "int32_t"],
                     [name |-> "name", type |-> "stl-string"]>>]

IsCompound(type) == type \in {"world", "raws", "plants", "plant_raw"}

\* The containers: their kind, item type, extent, and for a static array
\* whether it has an index enum (with the values A = 1, N = -1, Z = 7).
Containers ==
    [x \in {"stl-vector<pointer<plant_raw>>", "pointer<plant_raw>[5]",
            "plant_raw[5]"} |->
        IF x = "stl-vector<pointer<plant_raw>>"
        THEN [static |-> FALSE, item_type |-> "pointer<plant_raw>",
              extent |-> 0, index_enum |-> FALSE]
        ELSE IF x = "pointer<plant_raw>[5]"
        THEN [static |-> TRUE, item_type |-> "pointer<plant_raw>",
              extent |-> 5, index_enum |-> FALSE]
        ELSE [static |-> TRUE, item_type |-> "plant_raw", extent |-> 5,
              index_enum |-> TRUE]]

IsContainer(type) == type \in DOMAIN Containers

EnumValues == [A |-> 1, N |-> 0 - 1, Z |-> 7]

\* getTypeInfo under the GNU 64 bit ABI, the info of compounds being the
\* one compute_info_t computes.
RECURSIVE getTypeInfo(_, _)
getTypeInfo(allType, type) ==
    IF type = "int32_t" THEN [size |-> 4, align |-> 4]
    ELSE IF type = "stl-string" THEN [size |-> 32, align |-> 8]
    ELSE IF type = "pointer<plant_raw>" THEN [size |-> 8, align |-> 8]
    ELSE IF type = "stl-vector<pointer<plant_raw>>"
    THEN [size |-> 24, align |-> 8]
    ELSE IF IsContainer(type)
    THEN LET item == getTypeInfo(allType, Containers[type].item_type)
         IN  [size |-> Containers[type].extent * item.size,
              align |-> item.align]
    ELSE LET ms == Members(allType)[type]
             info == CompoundInfo("GNU", [size |-> 8, align |-> 8],
                         [vtable |-> FALSE, is_union |-> FALSE,
                          members |-> [i \in 1 .. Len(ms) |->
                                          getTypeInfo(allType, ms[i].type)]],
                         FALSE, NoParentInfo)
         IN  [size |-> info.size, align |-> info.align,
              member_offsets |-> info.member_offsets]

\* Compound::searchMember: the index of the member of that name, 0 if none
\* (the compounds have no anonymous member).
searchMember(allType, compound, name) ==
    LET ms == Members(allType)[compound]
        found == {i \in 1 .. Len(ms) : ms[i].name = name}
    IN  IF found = {} THEN 0 ELSE SetMin(found)

\* The test of getOffset on the container that is indexed.
any_container(type) == TRUE
is_static_array(type) == Containers[type].static

\* One item of the path applied to res = (type, offset).
apply_item(allType, res, item) ==
    LET fail(e) == [res EXCEPT !.err = e]
    IN  IF item.k \in {"identifier", "container_of"}
        THEN IF ~IsCompound(res.type)
             THEN fail(IF item.k = "identifier"
                       THEN "identifier needs a compound"
                       ELSE "container_of needs a compound")
             ELSE LET i == searchMember(allType, res.type, item.v)
                  IN  IF i = 0 THEN fail("member not found")
                      ELSE [res EXCEPT
                               !.offset = @ + getTypeInfo(allType, res.type)
                                                 .member_offsets[i],
                               !.type = Members(allType)[res.type][i].type]
        ELSE IF ~IsContainer(res.type) THEN fail("index needs a container")
        ELSE IF ~is_static_array(res.type)
        THEN fail("index needs a static array")
        ELSE LET c == Containers[res.type]
                 e == IF item.k = "index" THEN "none"
                      ELSE IF ~c.index_enum
                      THEN "named index on array without index enum"
                      ELSE IF item.v \notin DOMAIN EnumValues
                      THEN "enum value not found"
                      ELSE IF EnumValues[item.v] < 0
                              \/ EnumValues[item.v] >= c.extent
                      THEN "invalid index value from enum"
                      ELSE "none"
                 i == IF item.k = "index" THEN item.v
                      ELSE IF e = "none" THEN EnumValues[item.v] ELSE 0
             IN  IF e # "none" THEN fail(e)
                 ELSE [res EXCEPT
                          !.offset = @ + i * getTypeInfo(allType,
                                                 c.item_type).size,
                          !.type = c.item_type]

\* MemoryLayout::getOffset: the items of the path from item i are applied in
\* turn; the first error is thrown.
RECURSIVE getOffset(_, _, _, _)
getOffset(allType, res, path, i) ==
    IF i > Len(path) \/ res.err # "none" THEN res
    ELSE getOffset(allType, apply_item(allType, res, path[i]), path, i + 1)

\* The address of the global object w in the version, and the base offsets
\* of a process.
GlobalAddress == 1000
BaseOffsets24 == {0, 16}

\* Pointer::fromGlobal.
fromGlobal(allType, path, base_offset) ==
    LET fail(e) == [err |-> e, type |-> "none", address |-> 0]
    IN  IF Len(path) < 1 \/ path[1].k # "identifier"
        THEN fail("global path must begin with an identifier")
        ELSE IF path[1].v # "w" THEN fail("global object address not found")
        ELSE IF Len(path) > 1
        THEN LET r == getOffset(allType,
                          [err |-> "none", type |-> "world", offset |-> 0],
                          path, 2)
             IN  [err |-> r.err, type |-> r.type,
                  address |-> IF r.err = "none"
                              THEN GlobalAddress + base_offset + r.offset
                              ELSE 0]
        ELSE [err |-> "none", type |-> "world",
              address |-> GlobalAddress + base_offset]

\* The items a path is made of.
PathItems ==
    [k : {"identifier"}, v : {"w", "raws", "plants", "all", "name"}]
    \cup [k : {"container_of"}, v : {"all"}]
    \cup [k : {"index"}, v : {3}]
    \cup [k : {"name_index"}, v : {"A", "N", "Z", "Q"}]

RECURSIVE PathTails(_)
PathTails(n) ==
    IF n = 0 THEN {<<>>}
    ELSE PathTails(n - 1) \cup
         {Append(p, x) : p \in {q \in PathTails(n - 1) : Len(q) = n - 1},
                         x \in PathItems}

\* The paths resolved: the start of w.raws.plants.all followed by at most
\* MaxTail items.
Id(v) == [k |-> "identifier", v |-> v]
GlobalPaths ==
    {SubSeq(<<Id("w"), Id("raws"), Id("plants"), Id("all")>>, 1, n) \o t :
        n \in 0 .. 4, t \in PathTails(MaxTail)}

NoResolved == [allType |-> "int32_t", path |-> <<>>, base_offset |-> 0,
               done |-> FALSE,
               res |-> [err |-> "none", type |-> "none", address |-> 0]]

\* Pointer::fromGlobal is called with a path on structures whose member
\* all has the type allType.
ResolveGlobalPath ==
    /\ ~resolved.done
    /\ \E allType \in AllTypes, path \in GlobalPaths,
          base_offset \in BaseOffsets24 :
          resolved' = [allType |-> allType, path |-> path,
                       base_offset |-> base_offset, done |-> TRUE,
                       res |-> fromGlobal(allType, path, base_offset)]
    /\ UNCHANGED notResolve

\* The caller has taken the pointer or the error.
ResolveReturn ==
    /\ resolved.done
    /\ resolved' = NoResolved
    /\ UNCHANGED notResolve

ResolveInit == resolved = NoResolved

ResolveNext ==
    \/ ResolveGlobalPath
    \/ ResolveReturn

(***************************************************************************)
(* Path syntax: path::to_string writes a path, parse_path reads a string.  *)
(* A string is a sequence of characters.                                   *)
(***************************************************************************)
Digits == <<"0", "1", "2", "3", "4", "5", "6", "7", "8", "9">>

is_digit(c) == \E d \in 1 .. 10 : Digits[d] = c
is_alpha(c) == c \in {"a", "b"}
is_identifier(c) == c = "_" \/ is_digit(c) \/ is_alpha(c)

\* std::to_string of an unsigned integer.
RECURSIVE to_string_int(_)
to_string_int(i) ==
    IF i < 10 THEN <<Digits[i + 1]>>
    ELSE to_string_int(i \div 10) \o <<Digits[(i % 10) + 1]>>

DigitValue(c) == (CHOOSE d \in 1 .. 10 : Digits[d] = c) - 1

\* parse_int from position it: the value and the position of the first
\* character that is no digit; the value is a std::size_t.
RECURSIVE parse_int(_, _, _)
parse_int(str, it, res) ==
    IF it > Len(str) \/ ~is_digit(str[it]) THEN [value |-> res, it |-> it]
    ELSE parse_int(str, it + 1,
                   (10 * res + DigitValue(str[it])) % (2 ^ SizeTBits))

\* The text of one item; first is whether it is the first item.
item_string(item, first) ==
    IF item.k = "identifier"
    THEN (IF first THEN <<>> ELSE <<".">>) \o item.v
    ELSE IF item.k = "container_of" THEN <<".", "(">> \o item.v \o <<")">>
    ELSE IF item.k = "index" THEN <<"[">> \o to_string_int(item.v) \o <<"]">>
    ELSE <<"[">> \o item.v \o <<"]">>

\* path::to_string from item i.
RECURSIVE path_to_string(_, _)
path_to_string(path, i) ==
    IF i > Len(path) THEN <<>>
    ELSE item_string(path[i], i = 1) \o path_to_string(path, i + 1)

\* std::find_if_not(it, end, is_identifier).
RECURSIVE identifier_end(_, _)
identifier_end(str, it) ==
    IF it > Len(str) \/ ~is_identifier(str[it]) THEN it
    ELSE identifier_end(str, it + 1)

\* parse_path_impl from position it: the items read so far are vec.
RECURSIVE parse_path_impl(_, _, _, _)
parse_path_impl(str, it, first, vec) ==
    LET end == Len(str) + 1
        fail(e) == [err |-> e, vec |-> vec]
    IN  IF it = end THEN [err |-> "none", vec |-> vec]
        ELSE IF first \/ str[it] = "."
        THEN LET it1 == IF first THEN it ELSE it + 1
                 is_container_of == it1 # end /\ str[it1] = "("
                 it2 == IF is_container_of THEN it1 + 1 ELSE it1
                 id_end == identifier_end(str, it2)
                 name == SubSeq(str, it2, id_end - 1)
             IN  IF it1 = end THEN fail("unexpected end after '.'")
                 ELSE IF it2 = end THEN fail("unexpected end after '('")
                 ELSE IF ~is_alpha(str[it2])
                 THEN fail("identifer must begin with alphabetic character")
                 ELSE IF is_container_of
                 THEN IF id_end = end \/ str[id_end] # ")"
                      THEN [err |-> "')' expected",
                            vec |-> Append(vec, [k |-> "container_of",
                                                 v |-> name])]
                      ELSE parse_path_impl(str, id_end + 1, FALSE,
                               Append(vec, [k |-> "container_of",
                                            v |-> name]))
                 ELSE parse_path_impl(str, id_end, FALSE,
                          Append(vec, [k |-> "identifier", v |-> name]))
        ELSE IF str[it] = "["
        THEN LET it1 == it + 1
             IN  IF it1 = end THEN fail("unexpected end after '['")
                 ELSE IF ~is_digit(str[it1]) /\ ~is_alpha(str[it1])
                 THEN fail("index expected")
                 ELSE LET int == parse_int(str, it1, 0)
                          id_end == identifier_end(str, it1)
                          item == IF is_digit(str[it1])
                                  THEN [k |-> "index", v |-> int.value]
                                  ELSE [k |-> "name_index",
                                        v |-> SubSeq(str, it1, id_end - 1)]
                          it2 == IF is_digit(str[it1]) THEN int.it
                                 ELSE id_end
                      IN  IF it2 = end \/ str[it2] # "]"
                          THEN [err |-> "] expected",
                                vec |-> Append(vec, item)]
                          ELSE parse_path_impl(str, it2 + 1, FALSE,
                                               Append(vec, item))
        ELSE fail("unexpected character")

\* dfs::parse_path.
parse_path(str) == parse_path_impl(str, 1, TRUE, <<>>)

\* The names and the indices of the items of a path.
Names == {<<"a">>, <<"b", "_", "1">>}
Indices == {0, 3, 12}

SyntaxItems ==
    [k : {"identifier", "container_of", "name_index"}, v : Names]
    \cup [k : {"index"}, v : Indices]

RECURSIVE SyntaxPaths(_)
SyntaxPaths(n) ==
    IF n = 0 THEN {<<>>}
    ELSE SyntaxPaths(n - 1) \cup
         {Append(p, x) : p \in {q \in SyntaxPaths(n - 1) : Len(q) = n - 1},
                         x \in SyntaxItems}

NoParsed == [path |-> <<>>, str |-> <<>>, done |-> FALSE,
             res |-> [err |-> "none", vec |-> <<>>]]

\* A path is written by to_string and the string is read by parse_path.
WriteAndParsePath ==
    /\ ~parsed.done
    /\ \E path \in SyntaxPaths(MaxPathLen) :
          LET str == path_to_string(path, 1)
          IN  parsed' = [path |-> path, str |-> str, done |-> TRUE,
                         res |-> parse_path(str)]
    /\ UNCHANGED notSyntax

\* The caller has taken the items or the error.
ParseReturn ==
    /\ parsed.done
    /\ parsed' = NoParsed
    /\ UNCHANGED notSyntax

SyntaxInit == parsed = NoParsed

SyntaxNext ==
    \/ WriteAndParsePath
    \/ ParseReturn

(***************************************************************************)
(* Enum construction: Enum::Enum gives each enum-item its explicit value   *)
(* or the value after the previous one, and sets count.                    *)
(***************************************************************************)
\* The names of the enum-item elements ("" for an element without name) and
\* their explicit values.
ItemNames == {"", "X", "Y"}
ItemValues == {0 - 2, 0, 2, 5}

\* An enum-item element: its name and its value attribute, if any.
EnumItems == [name : ItemNames, has_value : BOOLEAN, value : ItemValues]

RECURSIVE EnumElements(_)
EnumElements(n) ==
    IF n = 0 THEN {<<>>}
    ELSE EnumElements(n - 1) \cup
         {Append(l, x) : l \in {k \in EnumElements(n - 1) : Len(k) = n - 1},
                         x \in {e \in EnumItems :
                                   ~e.has_value => e.value = 0}}

\* The loop of the constructor from element i: values maps the names added
\* to their value, names lists them.
RECURSIVE EnumCtor(_, _, _)
EnumCtor(elements, i, st) ==
    IF i > Len(elements) THEN st
    ELSE LET child == elements[i]
             value == IF child.has_value THEN child.value ELSE st.next_value
             inserted == child.name \notin DOMAIN st.values
         IN  EnumCtor(elements, i + 1,
                 IF inserted
                 THEN [next_value |-> value + 1,
                       values |-> [n \in DOMAIN st.values \cup {child.name}
                                      |-> IF n = child.name THEN value
                                          ELSE st.values[n]],
                       count |-> value + 1]
                 ELSE [st EXCEPT !.next_value = value + 1])

NoEnum == [elements |-> <<>>, done |-> FALSE,
           values |-> [n \in {} |-> 0], count |-> 0]

\* An Enum is constructed from its element.
ConstructEnum ==
    /\ ~enum.done
    /\ \E elements \in EnumElements(MaxItems) :
          LET st == EnumCtor(elements, 1,
                             [next_value |-> 0, values |-> [n \in {} |-> 0],
                              count |-> 0])
          IN  enum' = [elements |-> elements, done |-> TRUE,
                       values |-> st.values, count |-> st.count]
    /\ UNCHANGED notEnum

\* The enum has been added to the structures.
EnumReturn ==
    /\ enum.done
    /\ enum' = NoEnum
    /\ UNCHANGED notEnum

EnumInit == enum = NoEnum

EnumNext ==
    \/ ConstructEnum
    \/ EnumReturn

(***************************************************************************)
(* Specifications.                                                         *)
(***************************************************************************)
Init ==
    /\ CacheInit
    /\ VecInit
    /\ FactInit
    /\ SharedInit
    /\ UnionInit
    /\ SeqInit
    /\ PolyInit
    /\ StdVecInit
    /\ ListInit
    /\ NativeInit
    /\ LayoutInit
    /\ InfoInit
    /\ ResolveInit
    /\ SyntaxInit
    /\ EnumInit

Next ==
    \/ CacheNext
    \/ VecNext
    \/ FactNext
    \/ SharedNext
    \/ UnionNext
    \/ SeqNext
    \/ PolyNext
    \/ StdVecNext
    \/ ListNext
    \/ NativeNext
    \/ LayoutNext
    \/ InfoNext
    \/ ResolveNext
    \/ SyntaxNext
    \/ EnumNext

Spec == Init /\ [][Next]_vars

\* The session and the cache alone.
SpecCache == Init /\ [][CacheNext]_vars

\* The vectorizer and one sync alone.
SpecVec == Init /\ [][VecNext]_vars

\* The reader factory alone.
SpecFactory == Init /\ [][FactNext]_vars

\* The shared objects of a session alone.
SpecShared == Init /\ [][SharedNext]_vars

\* Union decoding alone.
SpecUnion == Init /\ [][UnionNext]_vars

\* One read of a compound reader alone.
SpecSeq == Init /\ [][SeqNext]_vars

\* The polymorphic reader alone.
SpecPoly == Init /\ [][PolyNext]_vars

\* The std::vector reader alone.
SpecStdVec == Init /\ [][StdVecNext]_vars

\* The read of one linked list.
SpecList == Init /\ [][ListNext]_vars

\* The reads and readv calls of a native process.
SpecNative == Init /\ [][NativeNext]_vars

\* The construction of one memory layout.
SpecLayout == Init /\ [][LayoutNext]_vars

\* The computation of one type info.
SpecInfo == Init /\ [][InfoNext]_vars

\* The resolution of one path to a global object.
SpecResolve == Init /\ [][ResolveNext]_vars

\* The writing and reading back of one path.
SpecSyntax == Init /\ [][SyntaxNext]_vars

\* The construction of one enum.
SpecEnum == Init /\ [][EnumNext]_vars

\* One thread runs the coroutines: it goes on as long as a step is enabled.
FairSpecVec == SpecVec /\ WF_vars(VecNext)

\* The reader of a linked list goes on as long as its loop or its item
\* readers can take a step.
FairSpecList == SpecList /\ WF_vars(FetchNode) /\ WF_vars(ReadListItems)

(***************************************************************************)
(* Claims on the vectorizer component.                                     *)
(***************************************************************************)
\* C1: if any read performed by a task passed to ReadSession::sync fails,
\* sync returns false.
C1_SyncFalseOnFailedRead ==
    (sync = "returned" /\ hist.failed) => syncRet = FALSE

\* C2: every read that waited in a flushed batch returns the error code
\* the readv of that batch returned.
C2_WaitersGetReadvResult ==
    \A t \in Tasks : tres[t].ready => tres[t].ec = tres[t].rv

BatchSize(reads) ==
    LET RECURSIVE Sum(_)
        Sum(i) == IF i > Len(reads) THEN 0 ELSE reads[i].size + Sum(i + 1)
    IN  Sum(1)

\* C10: the total size queued, and of every batch handed to readv, never
\* exceeds the ceiling unless the batch is one single request.
C10_QueueWithinCeiling ==
    /\ cur <= ceiling \/ Len(queue) <= 1
    /\ BatchSize(lastBatch.reads) <= ceiling \/ Len(lastBatch.reads) <= 1

\* C7: ProcessVectorizer::sync always returns, every read that waits in the
\* queue is flushed and its waiter resumed, and when sync has returned no
\* read is left queued and no coroutine is left running.
C7_SyncReturns ==
    /\ (sync = "running") ~> (sync = "returned")
    /\ \A t \in Tasks : (tpc[t] = "await") ~> (tpc[t] # "await")
    /\ [](sync = "returned" => (queue = <<>> /\ stack = <<>>))

\* A sync has returned after batches flushed by a read over the ceiling and
\* by the flushing loop, with every task having run all its reads.
C7_Witness ==
    /\ sync = "returned"
    /\ hist.byRead /\ hist.byLoop
    /\ \A t \in Tasks : tpc[t] = "done" /\ Len(prog[t]) = MaxReads

\* C11: a single read larger than the ceiling is not rejected: it is
\* flushed to readv whole and completes with the result of that readv.
C11_OversizedReadGetsReadvResult ==
    \A t \in Tasks :
        (/\ tpc[t] \in {"resumed", "afterset", "threw"}
         /\ tres[t].ready
         /\ prog[t][tidx[t]] > ceiling)
        => (/\ tres[t].ec = tres[t].rv
            /\ \E i \in 1 .. Len(lastBatch.reads) :
                   lastBatch.reads[i] = [t |-> t, idx |-> tidx[t],
                                         size |-> prog[t][tidx[t]]])

\* The buffers submitted so far: the reads a task has queued.
Submitted(t, i) ==
    \/ i < tidx[t]
    \/ i = tidx[t] /\ tpc[t] \in {"afterset", "await", "resumed", "threw"}

\* C28: each buffer submitted to ProcessVectorizer::read is placed in
\* exactly one batch handed to readv, and the submitting read is resumed
\* exactly once and only after the readv of that batch has completed:
\* no buffer is in two batches, no read returns twice, a read that has
\* returned had its buffer in one completed batch, a buffer in a batch is
\* a submitted one, and when sync has returned every buffer submitted was
\* in one batch and its read has returned once.
C28_OneBatchOneResume ==
    \A t \in Tasks : \A i \in 1 .. MaxReads :
        /\ hist.placed[t][i] <= 1
        /\ hist.returned[t][i] <= 1
        /\ hist.returned[t][i] = 1 => hist.placed[t][i] = 1
        /\ hist.placed[t][i] = 1 => Submitted(t, i)
        /\ (tres[t].ready /\ i = tidx[t] /\ Submitted(t, i)) => hist.placed[t][i] = 1
        /\ (sync = "returned" /\ Submitted(t, i))
            => (hist.placed[t][i] = 1 /\ hist.returned[t][i] = 1)

\* A sync has returned in which every task submitted MaxReads buffers, and
\* batches were flushed by a read over the ceiling and by the loop.
C28_Witness ==
    /\ sync = "returned"
    /\ hist.byRead /\ hist.byLoop
    /\ \A t \in Tasks : \A i \in 1 .. MaxReads :
        Submitted(t, i) /\ hist.placed[t][i] = 1 /\ hist.returned[t][i] = 1

(***************************************************************************)
(* Claims on the reader factory.                                           *)
(***************************************************************************)
\* C5: once the construction of a reader has failed, every session read
\* that depends on it, the first and every later one, makes sync return
\* false.
C5_IncompleteReaderFailsSync ==
    lastRead.dep => lastRead.ret = "false"

(***************************************************************************)
(* Claims on the shared objects.                                           *)
(***************************************************************************)
\* The object a shared-pointer read has yielded: its task, once done.
HasHandle(r) == r.out = "task" /\ status[r.task] = "done"

C15_KeyedOnAddressAndType ==
    \A i, j \in 1 .. Len(sreads) :
        /\ sreads[i].out # "mismatch"
        /\ (/\ sreads[i].addr = sreads[j].addr
            /\ sreads[i].type # sreads[j].type
            /\ sreads[i].out = "task"
            /\ sreads[j].out = "task")
           => sreads[i].task # sreads[j].task

\* C15, keyed on the address in the cache selected by the base type: a
\* lookup that yields an object has hit or made the entry of its address,
\* stored with its base type; a lookup that finds the address stored with
\* another base type fails with TypeMismatch and stores nothing; the
\* entries of one address under two base types are in two caches.
C15_KeyedOnAddressInCache ==
    \A i \in 1 .. Len(sreads) :
        LET r == sreads[i]
        IN  /\ r.out = "task" =>
                   caches[r.cache][r.addr] = [type |-> r.type, task |-> r.task]
            /\ r.out = "mismatch" =>
                   /\ caches[r.cache][r.addr] # NoEntry
                   /\ caches[r.cache][r.addr].type # r.type
            /\ \A j \in 1 .. Len(sreads) :
                   (/\ r.out = "task" /\ sreads[j].out = "task"
                    /\ r.addr = sreads[j].addr
                    /\ r.type # sreads[j].type)
                   => r.cache # sreads[j].cache

\* One address has been read under two base types in the session's own
\* cache, the second read failing, and under a base type with a cache of
\* its own.
C15_Witness ==
    \E i, j, k \in 1 .. Len(sreads) :
        /\ i < j
        /\ sreads[i].addr = sreads[j].addr
        /\ sreads[k].addr = sreads[j].addr
        /\ sreads[i].cache = sreads[j].cache
        /\ sreads[i].out = "task"
        /\ sreads[j].out = "mismatch"
        /\ sreads[k].out = "task"
        /\ sreads[k].cache # sreads[i].cache
        /\ sreads[k].type # sreads[i].type

(***************************************************************************)
(* Claims on union decoding.                                               *)
(***************************************************************************)
LastOutOfRange(kind) ==
    dread.kind = kind /\ OutOfRange(dread.n, dread.disc)

\* C12, for both readers: a discriminator that is neither SIZE_MAX nor the
\* index of an alternative makes the read fail with InvalidDiscriminator.
C12_OutOfRangeIsInvalidDiscriminator ==
    (LastOutOfRange("variant") \/ LastOutOfRange("union"))
    => dread.res.err = "InvalidDiscriminator"

\* C12, reader by reader: with such a discriminator the union compound
\* reader fails with InvalidDiscriminator and reads nothing, while the
\* variant item reader reports no error, reads nothing and leaves the
\* destination holding its first alternative.
C12_OutOfRangeByReader ==
    /\ LastOutOfRange("union") =>
           (dread.res.err = "InvalidDiscriminator" /\ dread.res.read = NoAlt)
    /\ LastOutOfRange("variant") =>
           (/\ dread.res.err = "none"
            /\ dread.res.read = NoAlt
            /\ dread.res.index = 0)

\* A variant that held another alternative has been read with an
\* out-of-range discriminator, after a union was.
C12_Witness ==
    /\ LastOutOfRange("variant")
    /\ dread.before # 0
    /\ dread.engaged # {}
    /\ "union" \in oor

(***************************************************************************)
(* Claims on the sequenced compound read.                                  *)
(***************************************************************************)
\* C13: in a sequenced compound read the fields are read in declaration
\* order: when the read of a field starts and its discriminator is
\* evaluated, the reads of all earlier fields have completed, and no later
\* field has been started.
C13_SequencedFieldsInOrder ==
    skind = "seq" =>
        \A i \in Fields :
            /\ fstate[i] # "idle" =>
                   (/\ fobs[i] = 1 .. i - 1
                    /\ \A j \in 1 .. i - 1 : fstate[j] \in {"done", "failed"})
            /\ fstate[i] = "running" =>
                   \A j \in i + 1 .. NFields : fstate[j] = "idle"

\* A sequenced read has returned after each of its fields had suspended,
\* one of them failing.
C13_Witness ==
    /\ skind = "seq"
    /\ fresult = "InvalidField"
    /\ \A i \in Fields : sfields.suspends[i]
    /\ sfields.fails[1]
    /\ fstate[NFields] = "done"

\* C30: in a sequenced compound read, once the read of a field has failed
\* no later field of the compound is read and no later discriminator is
\* evaluated on the destination before the read fails with InvalidField.
C30_NoFieldReadAfterFailure ==
    skind = "seq" =>
        \A i \in Fields :
            fstate[i] = "failed" =>
                \A j \in i + 1 .. NFields : fstate[j] = "idle" /\ fobs[j] = {}

(***************************************************************************)
(* Claims on the polymorphic reader.                                       *)
(***************************************************************************)
\* The type whose registered vtable address the word read matches once the
\* base offset is subtracted.
Registered(I) ==
    /\ pread.how \notin {"none", "null", "word"}
    /\ preader.layout.vtables[I] # NoVtable
    /\ (pread.word - pread.base) % (2 ^ WordBits) = preader.layout.vtables[I]

\* C14: when the first word of the object, less the base offset of the
\* process, is the vtable address registered for Ti, the object returned
\* has concrete type Ti and was read by the compound reader of Ti; the
\* read returns such an object whenever Ti is not abstract and the reads
\* of the object succeed.
C14_VtableSelectsType ==
    \A I \in PTypes :
        Registered(I) =>
            /\ pread.res.err = "none" =>
                   (pread.res.type = I /\ pread.res.by = I)
            /\ (~preader.abstract[I] /\ pread.how = "ok") =>
                   pread.res.err = "none"

\* A derived type has been selected by its vtable address under a base
\* offset that is not zero, while another type is registered too.
C14_Witness ==
    \E I \in PTypes \ {0} :
        /\ Registered(I)
        /\ pread.base # 0
        /\ pread.res = [type |-> I, err |-> "none", by |-> I]
        /\ \E J \in PTypes \ {I} : preader.layout.vtables[J] # NoVtable

(***************************************************************************)
(* Claims on the std::vector reader.                                       *)
(***************************************************************************)
\* C16: read_vector on {begin, end, end_capacity}: all zero is an empty
\* vector; otherwise UnalignedPointer when a pointer is not a multiple of
\* the item alignment, else InvalidLength when end < begin or end - begin
\* is not a multiple of the item size, else InvalidCapacity when
\* end_capacity < end or end_capacity - begin is not a multiple of the
\* item size; and (begin, (end - begin) / item size) without error exactly
\* when there is no such violation.
C16_ReadVectorChecks ==
    LET b == stdvec.ptr[1]
        e == stdvec.ptr[2]
        c == stdvec.ptr[3]
        size == stdvec.info.size
        align == stdvec.info.align
        res == stdvec.vec_info
        Unaligned == b % align # 0 \/ e % align # 0 \/ c % align # 0
        BadLength == e < b \/ (e - b) % size # 0
        BadCapacity == c < e \/ (c - b) % size # 0
    IN  stdvec.done =>
            IF b = 0 /\ e = 0 /\ c = 0
            THEN res = [err |-> "none", data |-> 0, size |-> 0]
            ELSE /\ Unaligned => res.err = "UnalignedPointer"
                 /\ (~Unaligned /\ BadLength) => res.err = "InvalidLength"
                 /\ (~Unaligned /\ ~BadLength /\ BadCapacity) =>
                        res.err = "InvalidCapacity"
                 /\ res.err = "none" <=>
                        ~(Unaligned \/ BadLength \/ BadCapacity)
                 /\ res.err = "none" =>
                        (res.data = b /\ res.size = (e - b) \div size)

\* A vector of two items of size 2 that does not start at address 0 has
\* been decoded.
C16_Witness ==
    /\ stdvec.done
    /\ stdvec.vec_info = [err |-> "none", data |-> stdvec.ptr[1], size |-> 2]
    /\ stdvec.info = [size |-> 2, align |-> 2]
    /\ stdvec.ptr[1] # 0

\* C17: when the vector reader completes on pointers that satisfy the
\* vector invariants, the destination holds exactly (end - begin) / item
\* size items, those found in memory from begin on, in order, whatever it
\* held before.
C17_VectorItemsInOrder ==
    (stdvec.done /\ stdvec.err = "none") =>
        LET n == (stdvec.ptr[2] - stdvec.ptr[1]) \div stdvec.info.size
        IN  /\ Len(stdvec.out) = n
            /\ \A i \in 1 .. n :
                   stdvec.out[i] =
                       ItemAt(stdvec.ptr[1] + (i - 1) * stdvec.info.size)

\* The nodes met from the next pointer of node a until a null next pointer,
\* at most fuel of them.
RECURSIVE Traversal(_, _, _)
Traversal(next, a, fuel) ==
    IF fuel = 0 \/ next[a] = 0 THEN <<>>
    ELSE <<next[a]>> \o Traversal(next, next[a], fuel - 1)

\* The walk from the head meets a null next pointer.
Acyclic(next, head) ==
    LET t == Traversal(next, head, MaxNodes)
    IN  (IF t = <<>> THEN next[head] ELSE next[t[Len(t)]]) = 0

\* C18: for an acyclic linked list the read ends; when it ends without
\* error the nodes fetched are those met from the head's next pointer until
\* the null next pointer, the destination holds exactly one item per fetched
\* node in that order, and the item of the head is not among them.
C18_LinkedListTraversal ==
    /\ [](dflist.pc = "done" /\ dflist.err = "none" =>
            LET t == Traversal(dflist.next, dflist.head, MaxNodes)
            IN  /\ Acyclic(dflist.next, dflist.head)
                /\ dflist.nodes = t
                /\ Len(dflist.out) = Len(t)
                /\ \A i \in 1 .. Len(t) : dflist.out[i] = NodeItem(t[i])
                /\ \A i \in 1 .. Len(t) :
                       dflist.out[i] # NodeItem(dflist.head))
    /\ (dflist.pc = "walk" /\ Acyclic(dflist.next, dflist.head))
           ~> (dflist.pc = "done")

\* A list of two nodes after the head has been read into a destination that
\* held three items.
C18_Witness ==
    /\ dflist.pc = "done"
    /\ dflist.err = "none"
    /\ Len(dflist.nodes) = 2
    /\ dflist.nodes[1] # dflist.nodes[2]
    /\ Len(dflist.before) = 3
    /\ dflist.out = <<NodeItem(dflist.nodes[1]), NodeItem(dflist.nodes[2])>>

\* C19: a read or readv of a native process that has returned after the
\* system transferred fewer bytes than were requested has returned an error.
C19_PartialReadIsError ==
    native.done /\ native.transferred < native.requested =>
        native.err # "none"

\* The types the size of type a depends on: parent, members by value, item
\* of a static array, parameter of an optional or a variant.
SizeLinks(s, a) ==
    IF s[a].kind \in {"compound", "static-array", "std-complete"}
    THEN s[a].links \cup (IF s[a].parent # 0 THEN {s[a].parent} ELSE {})
    ELSE {}

\* The size of a depends on the size of b through at most n links.
RECURSIVE DependsOn(_, _, _, _)
DependsOn(s, a, b, n) ==
    /\ n > 0
    /\ \E c \in SizeLinks(s, a) : c = b \/ DependsOn(s, c, b, n - 1)

\* C20: the construction of the layout ends with "Cyclic dependency" exactly
\* when the size of some compound depends on itself through parent, member
\* by value, static array item or optional/variant parameter links; a cycle
\* through a pointer or a container that needs no complete type does not
\* make it throw.
C20_CyclicExactlyOnSizeCycle ==
    layout.pc = "done" =>
        (layout.st.err <=>
            \E c \in LTypes : /\ layout.s[c].kind = "compound"
                              /\ DependsOn(layout.s, c, c, NLTypes))

\* The construction has thrown on a compound whose member is a static array
\* of the compound, while another compound refers to itself through a
\* pointer.
C20_Witness ==
    /\ layout.pc = "done"
    /\ layout.st.err
    /\ \E c \in LTypes, a \in LTypes, p \in LTypes :
          /\ layout.s[c].kind = "compound" /\ a \in layout.s[c].links
          /\ layout.s[a].kind = "static-array" /\ layout.s[a].links = {c}
          /\ layout.s[p].kind = "pointer" /\ layout.s[p].links = {c}

\* A structure or class holding one 32 bit integer.
OneInt32(vtable) ==
    [vtable |-> vtable, is_union |-> FALSE,
     members |-> <<[size |-> 4, align |-> 4]>>]

\* C21: for struct A { i32 a } and class B : A { i32 b } with a vtable, under
\* the 64 bit ABI of either compiler, the size of B is 16, A.a is at offset
\* 8 and B.b at offset 12 (the base is read at offset 0 of the derived
\* compound).
C21_DerivedWithVtableLayout ==
    (/\ tinfo.kind = "compound"
     /\ tinfo.pointer.size = 8
     /\ tinfo.has_parent
     /\ tinfo.p = OneInt32(FALSE)
     /\ tinfo.c = OneInt32(TRUE)) =>
        /\ tinfo.info.size = 16
        /\ tinfo.parent.member_offsets = <<8>>
        /\ tinfo.info.member_offsets = <<12>>

\* C22: for a union compound every member is at offset zero and the size of
\* the compound is the largest member size rounded up to the largest member
\* alignment.
C22_UnionLayout ==
    (tinfo.kind = "compound" /\ tinfo.c.is_union /\ tinfo.c.members # <<>>) =>
        /\ \A i \in 1 .. Len(tinfo.c.members) :
               tinfo.info.member_offsets[i] = 0
        /\ tinfo.info.size =
               computeAlign(max_element(tinfo.c.members, 1, "size"),
                            max_element(tinfo.c.members, 1, "align"))

\* C23: the size of an optional is the alignment plus the size of its
\* parameter, the size of a variant the largest alignment plus the largest
\* size of its parameters, padded up to that alignment: the size is a
\* multiple of the alignment of the container.
C23_ContainerSizePadded ==
    (tinfo.kind \in {"StdOptional", "StdVariant"} /\ tinfo.cinfo.err = "none")
        =>
        LET size == max_element(tinfo.params, 1, "size")
            align == max_element(tinfo.params, 1, "align")
        IN  /\ tinfo.cinfo.align = align
            /\ tinfo.cinfo.size = computeAlign(align + size, align)
            /\ tinfo.cinfo.size % tinfo.cinfo.align = 0

\* The path w.raws.plants.all[3].name.
S4Path ==
    <<Id("w"), Id("raws"), Id("plants"), Id("all"),
      [k |-> "index", v |-> 3], Id("name")>>

\* The resolved path is w.raws.plants.all followed by one index: the type
\* indexed is the type of all.
IndexedAll ==
    /\ Len(resolved.path) = 5
    /\ SubSeq(resolved.path, 1, 4) = SubSeq(S4Path, 1, 4)
    /\ resolved.path[5].k \in {"index", "name_index"}

\* C24 as stated: with all a vector of pointers to plant_raw the path
\* w.raws.plants.all[3].name resolves to the type of plant_raw.name and its
\* offset.
C24_VectorPathResolves ==
    (/\ resolved.done
     /\ resolved.allType = "stl-vector<pointer<plant_raw>>"
     /\ resolved.path = S4Path) =>
        resolved.res.err = "none" /\ resolved.res.type = "stl-string"

\* C24 as the code has it: an index resolves on a static array only.  With
\* all a vector of pointers the path fails with "index needs a static
\* array"; with all an array of plant_raw it resolves to the type of name at
\* the address of w plus the offsets of all, of item 3 and of name; and
\* "index needs a container" is the error only when the type indexed is not
\* a container.
C24_IndexResolvesOnStaticArray ==
    resolved.done =>
        /\ (resolved.allType = "stl-vector<pointer<plant_raw>>"
            /\ resolved.path = S4Path) =>
               resolved.res.err = "index needs a static array"
        /\ (resolved.allType = "plant_raw[5]" /\ resolved.path = S4Path) =>
               /\ resolved.res.err = "none"
               /\ resolved.res.type = "stl-string"
               /\ resolved.res.address =
                      GlobalAddress + resolved.base_offset + 8 + 3 * 40 + 8
        /\ (IndexedAll /\ resolved.res.err = "index needs a container") =>
               ~IsContainer(resolved.allType)
        /\ (IndexedAll /\ ~IsContainer(resolved.allType)) =>
               resolved.res.err = "index needs a container"

\* The path of the scenario has failed on the vector.
C24_Witness ==
    /\ resolved.done
    /\ resolved.allType = "stl-vector<pointer<plant_raw>>"
    /\ resolved.path = S4Path
    /\ resolved.res.err = "index needs a static array"

\* C25: for every path made of identifier, container_of, integer index and
\* enum name index items, parse_path of to_string of the path succeeds and
\* gives the path back item for item.
C25_ParseOfToStringIsIdentity ==
    parsed.done => (parsed.res.err = "none" /\ parsed.res.vec = parsed.path)

\* C26: the count of an enum that has items is the largest of the values of
\* its items plus 1, in whatever order the values were given.
C26_CountIsLargestValuePlusOne ==
    (enum.done /\ DOMAIN enum.values # {}) =>
        enum.count = SetMax({enum.values[n] : n \in DOMAIN enum.values}) + 1

=============================================================================
